---------------------------- MODULE Spec2Model ----------------------------
(* GP0 command port of the PS1 GPU (ps1-core/src/gpu/gp0.rs): the command   *)
(* state machine, the parameter buffer, the parameter parsers and the       *)
(* draw dispatch.                                                           *)
(*                                                                          *)
(* A 32-bit word is a record [hi, lo] of its two halfwords, because TLC's   *)
(* integers are 32-bit signed and cannot hold 0x80000000 and above.         *)
(* The pixel-filling functions of gp0/rasterize.rs are external; a call of  *)
(* one of them is recorded, with its arguments, in the variable calls.      *)
EXTENDS Integers, Sequences, FiniteSets, TLC

VARIABLES
    command_state,        \* Gp0State.command_state
    parameters,           \* Gp0State.parameters: [0..10 -> word]
    global_texture_page,  \* Gp0State.global_texture_page
    texture_window,       \* Gp0State.texture_window
    draw_settings,        \* Gp0State.draw_settings
    vram,                 \* Gpu.vram, sparse: byte address -> byte, 0 elsewhere
    calls,                \* rasterizer calls made by the last port access
    panicked,             \* "none", or the abort raised by the last write
    cmd_word,             \* history: header word of the last command accepted
    received,             \* history: words written after that header
    last_read,            \* history: word returned by the last port read
    streamed,             \* history: the last CPU-to-VRAM blit still in the VRAM
    sweep,                \* a SweepEnvelope (spu/envelope.rs)
    adsr,                 \* an AdsrEnvelope (spu/envelope.rs)
    sweep_run,            \* history: the clocks of sweep since its last update
    adsr_run              \* history: the clocks of adsr since its last update

vars == <<command_state, parameters, global_texture_page, texture_window,
          draw_settings, vram, calls, panicked, cmd_word, received, last_read,
          streamed, sweep, adsr, sweep_run, adsr_run>>

\* the variables of the GPU command engine and those of the envelopes
gp0_vars == <<command_state, parameters, global_texture_page, texture_window,
              draw_settings, vram, calls, panicked, cmd_word, received, last_read,
              streamed>>

envelope_vars == <<sweep, adsr, sweep_run, adsr_run>>

-----------------------------------------------------------------------------
(* 32-bit words *)

W(hi, lo) == [hi |-> hi, lo |-> lo]

ZeroWord == W(0, 0)

\* u32 >> n
Shr(w, n) ==
    IF n >= 16
    THEN W(0, w.hi \div 2^(n - 16))
    ELSE W(w.hi \div 2^n, (w.lo \div 2^n) + (w.hi % 2^n) * 2^(16 - n))

\* U32Ext::bit
bit(w, n) ==
    IF n >= 16 THEN (w.hi \div 2^(n - 16)) % 2 = 1 ELSE (w.lo \div 2^n) % 2 = 1

\* w & (2^k - 1), k <= 16
Low(w, k) == w.lo % 2^k

\* u8::from(bool), u32::from(bool)
FromBool(b) == IF b THEN 1 ELSE 0

-----------------------------------------------------------------------------
(* Parsers of command fields *)

parse_command_color(value) ==
    [r |-> value.lo % 256, g |-> (value.lo \div 256) % 256, b |-> value.hi % 256]

\* mutant of parse_signed_11_bit: the field is zero-extended
parse_signed_11_bit_Mutant(word) == Low(word, 11)

\* ((word as i32) << 21) >> 21: the low 11 bits, sign-extended
parse_signed_11_bit(word) ==
    LET m == Low(word, 11) IN IF m >= 1024 THEN m - 2048 ELSE m

parse_vertex_coordinates(parameter) ==
    [x |-> parse_signed_11_bit(parameter),
     y |-> parse_signed_11_bit(Shr(parameter, 16))]

\* mutant of parse_vram_position: y is masked like x
parse_vram_position_Mutant(value) ==
    [x |-> Low(value, 10), y |-> Low(Shr(value, 16), 10)]

parse_vram_position(value) ==
    [x |-> Low(value, 10), y |-> Low(Shr(value, 16), 9)]

\* mutant of parse_vram_size: the size fields are masked only, 0 stays 0
parse_vram_size_Mutant(value) ==
    [x |-> value.lo % 1024, y |-> value.hi % 512]

\* wrapping_sub(1) & mask, + 1: a size field of 0 means the full extent
parse_vram_size(value) ==
    [x |-> ((value.lo + 1023) % 1024) + 1,
     y |-> ((value.hi + 511) % 512) + 1]

PolygonVertices_from_bit(b) == IF b THEN "Four" ELSE "Three"

PolygonVertices_into_u8(v) == IF v = "Four" THEN 4 ELSE 3

RectangleSize_from_bits(bits) ==
    CASE Low(bits, 2) = 0 -> "Variable"
      [] Low(bits, 2) = 1 -> "One"
      [] Low(bits, 2) = 2 -> "Eight"
      [] OTHER -> "Sixteen"

SemiTransparencyMode_from_bits(bits) ==
    CASE Low(bits, 2) = 0 -> "Average"
      [] Low(bits, 2) = 1 -> "Add"
      [] Low(bits, 2) = 2 -> "Subtract"
      [] OTHER -> "AddQuarter"

TextureColorDepthBits_from_bits(bits) ==
    CASE Low(bits, 2) = 0 -> "Four"
      [] Low(bits, 2) = 1 -> "Eight"
      [] OTHER -> "Fifteen"

TexturePage_from_command_word(command) ==
    [x_base |-> Low(command, 4),
     y_base |-> 256 * Low(Shr(command, 4), 1),
     semi_transparency_mode |-> SemiTransparencyMode_from_bits(Shr(command, 5)),
     color_depth |-> TextureColorDepthBits_from_bits(Shr(command, 7)),
     rectangle_x_flip |-> bit(command, 12),
     rectangle_y_flip |-> bit(command, 13)]

TextureWindow_from_command_word(command) ==
    [x_mask |-> Low(command, 5),
     y_mask |-> Low(Shr(command, 5), 5),
     x_offset |-> Low(Shr(command, 10), 5),
     y_offset |-> Low(Shr(command, 15), 5)]

TexturePage_default ==
    [x_base |-> 0, y_base |-> 0, semi_transparency_mode |-> "Average",
     color_depth |-> "Four", rectangle_x_flip |-> FALSE, rectangle_y_flip |-> FALSE]

TextureWindow_default == [x_mask |-> 0, y_mask |-> 0, x_offset |-> 0, y_offset |-> 0]

DrawSettings_default ==
    [drawing_in_display_allowed |-> FALSE, dithering_enabled |-> FALSE,
     draw_area_top_left |-> <<0, 0>>, draw_area_bottom_right |-> <<0, 0>>,
     draw_offset |-> <<0, 0>>, force_mask_bit |-> FALSE, check_mask_bit |-> FALSE]

Color_default == [r |-> 0, g |-> 0, b |-> 0]

Vertex_default == [x |-> 0, y |-> 0]

PARAMETERS_LEN == 11

-----------------------------------------------------------------------------
(* Command states and classifiers *)

WaitingForCommand == [tag |-> "WaitingForCommand"]

WaitingForParameters(command, index, remaining) ==
    [tag |-> "WaitingForParameters", command |-> command,
     index |-> index, remaining |-> remaining]

WaitingForPolyline(line_parameters) ==
    [tag |-> "WaitingForPolyline", parameters |-> line_parameters]

ReceivingFromCpu(fields) == [tag |-> "ReceivingFromCpu", fields |-> fields]

SendingToCpu(fields) == [tag |-> "SendingToCpu", fields |-> fields]

VRAM_TO_VRAM_BLIT == WaitingForParameters([kind |-> "VramToVramBlit"], 0, 3)

CPU_TO_VRAM_BLIT == WaitingForParameters([kind |-> "CpuToVramBlit"], 0, 2)

VRAM_TO_CPU_BLIT == WaitingForParameters([kind |-> "VramToCpuBlit"], 0, 2)

\* mutant of fill: one parameter too many
fill_Mutant(value) ==
    WaitingForParameters([kind |-> "Fill", color |-> parse_command_color(value)], 0, 3)

fill(value) ==
    WaitingForParameters([kind |-> "Fill", color |-> parse_command_color(value)], 0, 2)

Gp0CommandState_draw_line(value) ==
    LET gouraud_shading == bit(value, 28)
        polyline == bit(value, 27)
        semi_transparent == bit(value, 25)
    IN  WaitingForParameters(
            [kind |-> "DrawLine",
             gouraud_shading |-> gouraud_shading,
             polyline |-> polyline,
             semi_transparent |-> semi_transparent,
             color |-> parse_command_color(value)],
            0, 2 + FromBool(gouraud_shading))

\* mutant of draw_polygon: a colour parameter counted for the first vertex too
Gp0CommandState_draw_polygon_Mutant(value) ==
    LET gouraud_shading == bit(value, 28)
        vertices == PolygonVertices_from_bit(bit(value, 27))
        textured == bit(value, 26)
        vertex_count == PolygonVertices_into_u8(vertices)
    IN  WaitingForParameters(
            [kind |-> "DrawPolygon",
             vertices |-> vertices,
             gouraud_shading |-> gouraud_shading,
             textured |-> textured,
             semi_transparent |-> bit(value, 25),
             raw_texture |-> bit(value, 24),
             color |-> parse_command_color(value)],
            0,
            vertex_count * (1 + FromBool(textured))
                + vertex_count * FromBool(gouraud_shading))

Gp0CommandState_draw_polygon(value) ==
    LET gouraud_shading == bit(value, 28)
        vertices == PolygonVertices_from_bit(bit(value, 27))
        textured == bit(value, 26)
        vertex_count == PolygonVertices_into_u8(vertices)
    IN  WaitingForParameters(
            [kind |-> "DrawPolygon",
             vertices |-> vertices,
             gouraud_shading |-> gouraud_shading,
             textured |-> textured,
             semi_transparent |-> bit(value, 25),
             raw_texture |-> bit(value, 24),
             color |-> parse_command_color(value)],
            0,
            vertex_count * (1 + FromBool(textured))
                + (vertex_count - 1) * FromBool(gouraud_shading))

\* mutant of draw_rectangle: the size class read one bit too high
Gp0CommandState_draw_rectangle_Mutant(value) ==
    LET size == RectangleSize_from_bits(Shr(value, 28))
        textured == bit(value, 26)
    IN  WaitingForParameters(
            [kind |-> "DrawRectangle",
             size |-> size,
             textured |-> textured,
             semi_transparent |-> bit(value, 25),
             raw_texture |-> bit(value, 24),
             color |-> parse_command_color(value)],
            0, 1 + FromBool(textured) + FromBool(size = "Variable"))

Gp0CommandState_draw_rectangle(value) ==
    LET size == RectangleSize_from_bits(Shr(value, 27))
        textured == bit(value, 26)
    IN  WaitingForParameters(
            [kind |-> "DrawRectangle",
             size |-> size,
             textured |-> textured,
             semi_transparent |-> bit(value, 25),
             raw_texture |-> bit(value, 24),
             color |-> parse_command_color(value)],
            0, 1 + FromBool(textured) + FromBool(size = "Variable"))

-----------------------------------------------------------------------------
(* VRAM and the transfer cursor *)

\* self.vram[addr]
VramRead(v, addr) == IF addr \in DOMAIN v THEN v[addr] ELSE 0

\* self.vram[addr] = byte; v holds the bytes other than zero only
VramWrite(v, addr, byte) ==
    IF byte = 0
    THEN [a \in (DOMAIN v) \ {addr} |-> v[a]]
    ELSE (addr :> byte) @@ v

VramTransferFields(destination_x, destination_y, x_size, y_size) ==
    [destination_x |-> destination_x, destination_y |-> destination_y,
     x_size |-> x_size, y_size |-> y_size, row |-> 0, col |-> 0]

\* mutant of VramTransferFields::vram_addr: the coordinates are not wrapped
vram_addr_NoWrap(f) ==
    LET vram_x == f.destination_x + f.col
        vram_y == f.destination_y + f.row
    IN  2048 * vram_y + 2 * vram_x

vram_addr(f) ==
    LET vram_x == (f.destination_x + f.col) % 1024
        vram_y == (f.destination_y + f.row) % 512
    IN  2048 * vram_y + 2 * vram_x

\* VramTransferFields::increment: the advanced cursor and the IncrementEffect
increment(f) ==
    IF f.col + 1 = f.x_size
    THEN IF f.row + 1 = f.y_size
         THEN [fields |-> [f EXCEPT !.col = 0, !.row = f.row + 1], effect |-> "Finished"]
         ELSE [fields |-> [f EXCEPT !.col = 0, !.row = f.row + 1], effect |-> "None"]
    ELSE [fields |-> [f EXCEPT !.col = f.col + 1], effect |-> "None"]

\* one iteration of the loop of receive_vram_word_from_cpu
ReceiveHalfword(v, f, halfword) ==
    LET addr == vram_addr(f) IN
    VramWrite(VramWrite(v, addr, halfword % 256), addr + 1, halfword \div 256)

\* mutant of receive_vram_word_from_cpu: the high halfword is written first
receive_vram_word_from_cpu_Mutant(g, value, fields) ==
    LET v1 == ReceiveHalfword(g.vram, fields, value.hi)
        i1 == increment(fields)
        v2 == ReceiveHalfword(v1, i1.fields, value.lo)
        i2 == increment(i1.fields)
    IN  IF i1.effect = "Finished"
        THEN [g EXCEPT !.vram = v1, !.command_state = WaitingForCommand]
        ELSE IF i2.effect = "Finished"
        THEN [g EXCEPT !.vram = v2, !.command_state = WaitingForCommand]
        ELSE [g EXCEPT !.vram = v2, !.command_state = ReceivingFromCpu(i2.fields)]

\* mutant of receive_vram_word_from_cpu: the high halfword is written before
\* the cursor's report is looked at
receive_vram_word_from_cpu_WritesBoth(g, value, fields) ==
    LET v1 == ReceiveHalfword(g.vram, fields, value.lo)
        i1 == increment(fields)
        v2 == ReceiveHalfword(v1, i1.fields, value.hi)
        i2 == increment(i1.fields)
    IN  IF i1.effect = "Finished" \/ i2.effect = "Finished"
        THEN [g EXCEPT !.vram = v2, !.command_state = WaitingForCommand]
        ELSE [g EXCEPT !.vram = v2, !.command_state = ReceivingFromCpu(i2.fields)]

receive_vram_word_from_cpu(g, value, fields) ==
    LET v1 == ReceiveHalfword(g.vram, fields, value.lo)
        i1 == increment(fields)
        v2 == ReceiveHalfword(v1, i1.fields, value.hi)
        i2 == increment(i1.fields)
    IN  IF i1.effect = "Finished"
        THEN [g EXCEPT !.vram = v1, !.command_state = WaitingForCommand]
        ELSE IF i2.effect = "Finished"
        THEN [g EXCEPT !.vram = v2, !.command_state = WaitingForCommand]
        ELSE [g EXCEPT !.vram = v2, !.command_state = ReceivingFromCpu(i2.fields)]

\* mutant of the read of a pixel: only the byte at the cursor is read
ReadHalfword_LowByte(v, f) ==
    LET addr == vram_addr(f) IN VramRead(v, addr)

\* u16::from_le_bytes of the two bytes at the cursor
ReadHalfword(v, f) ==
    LET addr == vram_addr(f) IN VramRead(v, addr) + 256 * VramRead(v, addr + 1)

\* mutant of read_vram_word_for_cpu: the earlier pixel goes to the high
\* halfword
read_vram_word_for_cpu_Mutant(g, fields) ==
    LET h1 == ReadHalfword(g.vram, fields)
        i1 == increment(fields)
        h2 == ReadHalfword(g.vram, i1.fields)
        i2 == increment(i1.fields)
    IN  IF i1.effect = "Finished"
        THEN [gpu |-> [g EXCEPT !.command_state = WaitingForCommand], word |-> W(h1, 0)]
        ELSE IF i2.effect = "Finished"
        THEN [gpu |-> [g EXCEPT !.command_state = WaitingForCommand], word |-> W(h1, h2)]
        ELSE [gpu |-> [g EXCEPT !.command_state = SendingToCpu(i2.fields)],
              word |-> W(h1, h2)]

\* the new state and the word handed to the CPU
read_vram_word_for_cpu(g, fields) ==
    LET h1 == ReadHalfword(g.vram, fields)
        i1 == increment(fields)
        h2 == ReadHalfword(g.vram, i1.fields)
        i2 == increment(i1.fields)
    IN  IF i1.effect = "Finished"
        THEN [gpu |-> [g EXCEPT !.command_state = WaitingForCommand], word |-> W(0, h1)]
        ELSE IF i2.effect = "Finished"
        THEN [gpu |-> [g EXCEPT !.command_state = WaitingForCommand], word |-> W(h2, h1)]
        ELSE [gpu |-> [g EXCEPT !.command_state = SendingToCpu(i2.fields)],
              word |-> W(h2, h1)]

\* the pixel loop of execute_vram_copy: the pixels first .. last - 1 of
\* width * height are copied in the loop's order, row by row (the range is
\* halved so that a full row or column is evaluated at a small depth)
RECURSIVE VramCopyLoop(_, _, _, _, _, _)
VramCopyLoop(v, src, dst, width, first, last) ==
    IF last - first = 1
    THEN LET k == first
             source_x == (src.x + (k % width)) % 1024
             source_y == (src.y + (k \div width)) % 512
             dest_x == (dst.x + (k % width)) % 1024
             dest_y == (dst.y + (k \div width)) % 512
             source_addr == 2048 * source_y + 2 * source_x
             dest_addr == 2048 * dest_y + 2 * dest_x
             v1 == VramWrite(v, dest_addr, VramRead(v, source_addr))
         IN  VramWrite(v1, dest_addr + 1, VramRead(v1, source_addr + 1))
    ELSE LET middle == first + ((last - first) \div 2)
             half == VramCopyLoop(v, src, dst, width, first, middle)
         IN  \* the test has the first half evaluated before the second starts
             IF DOMAIN half = {}
             THEN half
             ELSE VramCopyLoop(half, src, dst, width, middle, last)

\* mutant of execute_vram_copy: the first parameter is taken as the
\* destination and the second as the source
execute_vram_copy_Mutant(g) ==
    LET src == [x |-> Low(g.parameters[1], 10), y |-> Low(Shr(g.parameters[1], 16), 9)]
        dst == [x |-> Low(g.parameters[0], 10), y |-> Low(Shr(g.parameters[0], 16), 9)]
        width == ((g.parameters[2].lo + 1023) % 1024) + 1
        height == ((g.parameters[2].hi + 511) % 512) + 1
    IN  [g EXCEPT !.vram = VramCopyLoop(g.vram, src, dst, width, 0, width * height)]

execute_vram_copy(g) ==
    LET src == [x |-> Low(g.parameters[0], 10), y |-> Low(Shr(g.parameters[0], 16), 9)]
        dst == [x |-> Low(g.parameters[1], 10), y |-> Low(Shr(g.parameters[1], 16), 9)]
        width == ((g.parameters[2].lo + 1023) % 1024) + 1
        height == ((g.parameters[2].hi + 511) % 512) + 1
    IN  [g EXCEPT !.vram = VramCopyLoop(g.vram, src, dst, width, 0, width * height)]

-----------------------------------------------------------------------------
(* Parameter parsers of the draw commands.  Gp0Parameters is a cursor over  *)
(* the buffer: next() reads the cell at the cursor and advances it, peek()  *)
(* reads it and stays.                                                      *)

\* mutant of parse_draw_line_parameters: the second vertex read before the
\* second colour
parse_draw_line_parameters_Mutant(command_parameters, params) ==
    LET v0 == parse_vertex_coordinates(params[0])
        v1 == parse_vertex_coordinates(params[1])
        shading ==
            IF command_parameters.gouraud_shading
            THEN [kind |-> "Gouraud",
                  colors |-> <<command_parameters.color, parse_command_color(params[2])>>]
            ELSE [kind |-> "Flat", colors |-> <<command_parameters.color>>]
    IN  [vertices |-> <<v0, v1>>,
         shading |-> shading,
         semi_transparent |-> command_parameters.semi_transparent]

\* mutant of parse_draw_line_parameters: of the two words after the first
\* vertex, the vertex is read before the colour
parse_draw_line_parameters_VertexFirst(command_parameters, params) ==
    LET v0 == parse_vertex_coordinates(params[0])
        shading ==
            IF command_parameters.gouraud_shading
            THEN [kind |-> "Gouraud",
                  colors |-> <<command_parameters.color, parse_command_color(params[2])>>]
            ELSE [kind |-> "Flat", colors |-> <<command_parameters.color>>]
        v1 == parse_vertex_coordinates(params[1])
    IN  [vertices |-> <<v0, v1>>,
         shading |-> shading,
         semi_transparent |-> command_parameters.semi_transparent]

parse_draw_line_parameters(command_parameters, params) ==
    LET v0 == parse_vertex_coordinates(params[0])
        shading ==
            IF command_parameters.gouraud_shading
            THEN [kind |-> "Gouraud",
                  colors |-> <<command_parameters.color, parse_command_color(params[1])>>]
            ELSE [kind |-> "Flat", colors |-> <<command_parameters.color>>]
        v1 == parse_vertex_coordinates(
                  params[IF command_parameters.gouraud_shading THEN 2 ELSE 1])
    IN  [vertices |-> <<v0, v1>>,
         shading |-> shading,
         semi_transparent |-> command_parameters.semi_transparent]

\* the locals of parse_draw_polygon_parameters before its loop; arrays are 0-based
PolygonLocals(command_parameters) ==
    [pos |-> 0,
     vertices |-> [i \in 0..3 |-> Vertex_default],
     colors |-> [i \in 0..3 |-> IF i = 0 THEN command_parameters.color ELSE Color_default],
     u |-> [i \in 0..3 |-> 0],
     v |-> [i \in 0..3 |-> 0],
     clut_x |-> 0,
     clut_y |-> 0,
     texpage |-> TexturePage_default]

\* one iteration of the loop over vertex_idx
PolygonVertexStep(command_parameters, params, vertex_idx, acc) ==
    LET has_color == vertex_idx # 0 /\ command_parameters.gouraud_shading
        color_pos == acc.pos
        vertex_pos == acc.pos + FromBool(has_color)
        tex_pos == vertex_pos + 1
        a1 == IF has_color
              THEN [acc EXCEPT !.colors[vertex_idx] = parse_command_color(params[color_pos])]
              ELSE acc
        a2 == [a1 EXCEPT !.vertices[vertex_idx] = parse_vertex_coordinates(params[vertex_pos])]
        a3 == CASE vertex_idx = 0 ->
                     [a2 EXCEPT !.clut_x = Low(Shr(params[tex_pos], 16), 6),
                                !.clut_y = Low(Shr(params[tex_pos], 22), 9)]
                [] vertex_idx = 1 ->
                     [a2 EXCEPT !.texpage =
                          TexturePage_from_command_word(Shr(params[tex_pos], 16))]
                [] OTHER -> a2
    IN  IF command_parameters.textured
        THEN [a3 EXCEPT !.u[vertex_idx] = params[tex_pos].lo % 256,
                        !.v[vertex_idx] = (params[tex_pos].lo \div 256) % 256,
                        !.pos = tex_pos + 1]
        ELSE [a2 EXCEPT !.pos = vertex_pos + 1]

RECURSIVE PolygonLoop(_, _, _, _)
PolygonLoop(command_parameters, params, vertex_idx, acc) ==
    IF vertex_idx = PolygonVertices_into_u8(command_parameters.vertices)
    THEN acc
    ELSE PolygonLoop(command_parameters, params, vertex_idx + 1,
                     PolygonVertexStep(command_parameters, params, vertex_idx, acc))

\* DrawPolygonParameters of the triangle over the vertices i, j, k
PolygonTriangle(command_parameters, acc, i, j, k) ==
    [vertices |-> <<acc.vertices[i], acc.vertices[j], acc.vertices[k]>>,
     shading |->
         IF command_parameters.gouraud_shading
         THEN [kind |-> "Gouraud",
               colors |-> <<acc.colors[i], acc.colors[j], acc.colors[k]>>]
         ELSE [kind |-> "Flat", colors |-> <<acc.colors[0]>>],
     semi_transparent |-> command_parameters.semi_transparent,
     texture_params |->
         [texpage |-> acc.texpage, clut_x |-> acc.clut_x, clut_y |-> acc.clut_y,
          u |-> <<acc.u[i], acc.u[j], acc.u[k]>>,
          v |-> <<acc.v[i], acc.v[j], acc.v[k]>>],
     texture_mode |-> [textured |-> command_parameters.textured,
                       raw_texture |-> command_parameters.raw_texture]]

\* mutant of parse_draw_polygon_parameters: the second triangle keeps vertex 0
parse_draw_polygon_parameters_Mutant(command_parameters, params) ==
    LET acc == PolygonLoop(command_parameters, params, 0,
                           PolygonLocals(command_parameters))
        first_parameters == PolygonTriangle(command_parameters, acc, 0, 1, 2)
    IN  IF command_parameters.vertices = "Three"
        THEN <<first_parameters>>
        ELSE <<first_parameters, PolygonTriangle(command_parameters, acc, 0, 2, 3)>>

\* the sequence of one or two DrawPolygonParameters (first, Option<second>)
parse_draw_polygon_parameters(command_parameters, params) ==
    LET acc == PolygonLoop(command_parameters, params, 0,
                           PolygonLocals(command_parameters))
        first_parameters == PolygonTriangle(command_parameters, acc, 0, 1, 2)
    IN  IF command_parameters.vertices = "Three"
        THEN <<first_parameters>>
        ELSE <<first_parameters, PolygonTriangle(command_parameters, acc, 1, 2, 3)>>

\* mutant of parse_draw_rectangle_parameters: the size of a Variable
\* rectangle is read from cell 2, textured or not
parse_draw_rectangle_parameters_SizeLast(command_parameters, params) ==
    LET position == parse_vertex_coordinates(params[0])
        texture_params ==
            IF command_parameters.textured
            THEN [clut_x |-> Low(Shr(params[1], 16), 10),
                  clut_y |-> Low(Shr(params[1], 22), 9),
                  u |-> params[1].lo % 256,
                  v |-> (params[1].lo \div 256) % 256]
            ELSE [clut_x |-> 0, clut_y |-> 0, u |-> 0, v |-> 0]
        size == CASE command_parameters.size = "One" -> <<1, 1>>
                  [] command_parameters.size = "Eight" -> <<8, 8>>
                  [] command_parameters.size = "Sixteen" -> <<16, 16>>
                  [] OTHER -> <<Low(params[2], 10), Low(Shr(params[2], 16), 9)>>
    IN  [position |-> position,
         width |-> size[1],
         height |-> size[2],
         color |-> command_parameters.color,
         semi_transparent |-> command_parameters.semi_transparent,
         texture_params |-> texture_params,
         texture_mode |-> [textured |-> command_parameters.textured,
                           raw_texture |-> command_parameters.raw_texture]]

\* mutant of parse_draw_rectangle_parameters: the size of a Variable
\* rectangle is read from the word after the position, textured or not
parse_draw_rectangle_parameters_Mutant(command_parameters, params) ==
    LET position == parse_vertex_coordinates(params[0])
        texture_params ==
            IF command_parameters.textured
            THEN [clut_x |-> Low(Shr(params[1], 16), 10),
                  clut_y |-> Low(Shr(params[1], 22), 9),
                  u |-> params[1].lo % 256,
                  v |-> (params[1].lo \div 256) % 256]
            ELSE [clut_x |-> 0, clut_y |-> 0, u |-> 0, v |-> 0]
        size == CASE command_parameters.size = "One" -> <<1, 1>>
                  [] command_parameters.size = "Eight" -> <<8, 8>>
                  [] command_parameters.size = "Sixteen" -> <<16, 16>>
                  [] OTHER -> <<Low(params[1], 10), Low(Shr(params[1], 16), 9)>>
    IN  [position |-> position,
         width |-> size[1],
         height |-> size[2],
         color |-> command_parameters.color,
         semi_transparent |-> command_parameters.semi_transparent,
         texture_params |-> texture_params,
         texture_mode |-> [textured |-> command_parameters.textured,
                           raw_texture |-> command_parameters.raw_texture]]

parse_draw_rectangle_parameters(command_parameters, params) ==
    LET position == parse_vertex_coordinates(params[0])
        texture_params ==
            IF command_parameters.textured
            THEN [clut_x |-> Low(Shr(params[1], 16), 10),
                  clut_y |-> Low(Shr(params[1], 22), 9),
                  u |-> params[1].lo % 256,
                  v |-> (params[1].lo \div 256) % 256]
            ELSE [clut_x |-> 0, clut_y |-> 0, u |-> 0, v |-> 0]
        pos == IF command_parameters.textured THEN 2 ELSE 1
        size == CASE command_parameters.size = "One" -> <<1, 1>>
                  [] command_parameters.size = "Eight" -> <<8, 8>>
                  [] command_parameters.size = "Sixteen" -> <<16, 16>>
                  [] OTHER -> <<Low(params[pos], 10), Low(Shr(params[pos], 16), 9)>>
    IN  [position |-> position,
         width |-> size[1],
         height |-> size[2],
         color |-> command_parameters.color,
         semi_transparent |-> command_parameters.semi_transparent,
         texture_params |-> texture_params,
         texture_mode |-> [textured |-> command_parameters.textured,
                           raw_texture |-> command_parameters.raw_texture]]

-----------------------------------------------------------------------------
(* The Gpu: g is the record of the device's fields; every method returns    *)
(* the record after the call.                                               *)

\* a call of a function of gp0/rasterize.rs, with the settings it is handed
Rasterize(g, fn, args) ==
    [g EXCEPT !.calls = Append(@, [fn |-> fn, args |-> args,
                                   draw_settings |-> g.draw_settings,
                                   global_texture_page |-> g.global_texture_page])]

\* mutant of the aborts: the message is raised without the word
Abort_NoWord(g, kind, msg, args) ==
    [g EXCEPT !.panicked = [kind |-> kind, msg |-> msg, args |-> <<>>]]

\* todo!(..) and panic!(..): the write does not return and the state is kept
Abort(g, kind, msg, args) ==
    [g EXCEPT !.panicked = [kind |-> kind, msg |-> msg, args |-> args]]

NotPanicked == [kind |-> "none", msg |-> "", args |-> <<>>]

vram_fill(g, color) ==
    Rasterize(g, "fill",
              [x |-> g.parameters[0].lo, y |-> g.parameters[0].hi,
               width |-> g.parameters[1].lo, height |-> g.parameters[1].hi,
               color |-> color])

\* mutant of Gpu::draw_line: the polyline keeps its first colour
Gpu_draw_line_Mutant(g, command_parameters) ==
    LET line_parameters == parse_draw_line_parameters(command_parameters, g.parameters)
        v1 == line_parameters.vertices[2]
        g1 == Rasterize(g, "line", line_parameters)
    IN  IF command_parameters.polyline
        THEN [g1 EXCEPT
                 !.parameters[0] = W(v1.y % 65536, v1.x % 65536),
                 !.command_state = WaitingForPolyline(command_parameters)]
        ELSE [g1 EXCEPT !.command_state = WaitingForCommand]

\* mutant of Gpu::draw_line: the carried command is built anew and loses the
\* semi-transparency flag
Gpu_draw_line_DropsFlag(g, command_parameters) ==
    LET line_parameters == parse_draw_line_parameters(command_parameters, g.parameters)
        v1 == line_parameters.vertices[2]
        shading == line_parameters.shading
        g1 == Rasterize(g, "line", line_parameters)
        new_first_color == shading.colors[Len(shading.colors)]
    IN  IF command_parameters.polyline
        THEN [g1 EXCEPT
                 !.parameters[0] = W(v1.y % 65536, v1.x % 65536),
                 !.command_state =
                     WaitingForPolyline([command_parameters EXCEPT
                                            !.color = new_first_color,
                                            !.semi_transparent = FALSE])]
        ELSE [g1 EXCEPT !.command_state = WaitingForCommand]

\* mutant of Gpu::draw_line: cell 0 keeps the segment's first vertex
Gpu_draw_line_KeepsVertex(g, command_parameters) ==
    LET line_parameters == parse_draw_line_parameters(command_parameters, g.parameters)
        shading == line_parameters.shading
        g1 == Rasterize(g, "line", line_parameters)
        new_first_color == shading.colors[Len(shading.colors)]
    IN  IF command_parameters.polyline
        THEN [g1 EXCEPT
                 !.command_state =
                     WaitingForPolyline([command_parameters EXCEPT !.color = new_first_color])]
        ELSE [g1 EXCEPT !.command_state = WaitingForCommand]

\* the word draw_line puts in cell 0 for the vertex v1:
\* ((v1.x & 0xFFFF) | (v1.y << 16)) as u32
EncodeVertex(v1) == W(v1.y % 65536, v1.x % 65536)

Gpu_draw_line(g, command_parameters) ==
    LET line_parameters == parse_draw_line_parameters(command_parameters, g.parameters)
        v1 == line_parameters.vertices[2]
        shading == line_parameters.shading
        g1 == Rasterize(g, "line", line_parameters)
        new_first_color == shading.colors[Len(shading.colors)]
    IN  IF command_parameters.polyline
        THEN [g1 EXCEPT
                 !.parameters[0] = EncodeVertex(v1),
                 !.command_state =
                     WaitingForPolyline([command_parameters EXCEPT !.color = new_first_color])]
        ELSE [g1 EXCEPT !.command_state = WaitingForCommand]

\* mutant of Gpu::draw_polygon: a textured polygon leaves its texture page
\* in the global one
Gpu_draw_polygon_Mutant(g, command_parameters) ==
    LET triangles == parse_draw_polygon_parameters(command_parameters, g.parameters)
        g1 == Rasterize(g, "triangle", triangles[1])
        g2 == IF Len(triangles) = 2 THEN Rasterize(g1, "triangle", triangles[2]) ELSE g1
    IN  IF command_parameters.textured
        THEN [g2 EXCEPT !.global_texture_page = triangles[1].texture_params.texpage]
        ELSE g2

\* mutant of Gpu::draw_polygon: only the first triangle of a 4-vertex polygon
\* is drawn
Gpu_draw_polygon_OneTriangle(g, command_parameters) ==
    LET triangles == parse_draw_polygon_parameters(command_parameters, g.parameters)
    IN  Rasterize(g, "triangle", triangles[1])

\* mutant of Gpu::draw_polygon: the rasterizer is handed the polygon's own
\* texture page as the global one
Gpu_draw_polygon_OwnPage(g, command_parameters) ==
    LET triangles == parse_draw_polygon_parameters(command_parameters, g.parameters)
        own == [g EXCEPT !.global_texture_page = triangles[1].texture_params.texpage]
        g1 == Rasterize(own, "triangle", triangles[1])
        g2 == IF Len(triangles) = 2 THEN Rasterize(g1, "triangle", triangles[2]) ELSE g1
    IN  [g2 EXCEPT !.global_texture_page = g.global_texture_page]

Gpu_draw_polygon(g, command_parameters) ==
    LET triangles == parse_draw_polygon_parameters(command_parameters, g.parameters)
        g1 == Rasterize(g, "triangle", triangles[1])
    IN  IF Len(triangles) = 2 THEN Rasterize(g1, "triangle", triangles[2]) ELSE g1

Gpu_draw_rectangle(g, command_parameters) ==
    Rasterize(g, "rectangle",
              parse_draw_rectangle_parameters(command_parameters, g.parameters))

\* the cursor both blit starts build from parameters[0] and parameters[1]
BlitFields(g) ==
    LET destination == parse_vram_position(g.parameters[0])
        size == parse_vram_size(g.parameters[1])
    IN  VramTransferFields(destination.x, destination.y, size.x, size.y)

execute_draw_command(g, command) ==
    CASE command.kind = "Fill" ->
           [vram_fill(g, command.color) EXCEPT !.command_state = WaitingForCommand]
      [] command.kind = "DrawLine" -> Gpu_draw_line(g, command)
      [] command.kind = "DrawPolygon" ->
           [Gpu_draw_polygon(g, command) EXCEPT !.command_state = WaitingForCommand]
      [] command.kind = "DrawRectangle" ->
           [Gpu_draw_rectangle(g, command) EXCEPT !.command_state = WaitingForCommand]
      [] command.kind = "VramToVramBlit" ->
           [execute_vram_copy(g) EXCEPT !.command_state = WaitingForCommand]
      [] command.kind = "CpuToVramBlit" ->
           [g EXCEPT !.command_state = ReceivingFromCpu(BlitFields(g))]
      [] command.kind = "VramToCpuBlit" ->
           [g EXCEPT !.command_state = SendingToCpu(BlitFields(g))]

\* mutant of execute_settings_command: GP0($E1) toggles the dithering flag
\* where the code assigns it
execute_settings_command_Toggle(g, command) ==
    LET op == command.hi \div 256 IN
    CASE op = 225 ->
           [g EXCEPT !.global_texture_page = TexturePage_from_command_word(command),
                     !.draw_settings.drawing_in_display_allowed = bit(command, 10),
                     !.draw_settings.dithering_enabled = (@ # bit(command, 9))]
      [] op = 226 ->
           [g EXCEPT !.texture_window = TextureWindow_from_command_word(command)]
      [] op = 227 ->
           [g EXCEPT !.draw_settings.draw_area_top_left =
                         <<Low(command, 10), Low(Shr(command, 10), 9)>>]
      [] op = 228 ->
           [g EXCEPT !.draw_settings.draw_area_bottom_right =
                         <<Low(command, 10), Low(Shr(command, 10), 9)>>]
      [] op = 229 ->
           [g EXCEPT !.draw_settings.draw_offset =
                         <<parse_signed_11_bit(command),
                           parse_signed_11_bit(Shr(command, 11))>>]
      [] op = 230 ->
           [g EXCEPT !.draw_settings.force_mask_bit = bit(command, 0),
                     !.draw_settings.check_mask_bit = bit(command, 1)]
      [] OTHER -> Abort(g, "todo", "GP0 settings command {command:08X}", <<command>>)

\* mutant of execute_settings_command: GP0($E4) stores its corner in the
\* top-left field, as the arm above it does
execute_settings_command_Corner(g, command) ==
    LET op == command.hi \div 256 IN
    CASE op = 225 ->
           [g EXCEPT !.global_texture_page = TexturePage_from_command_word(command),
                     !.draw_settings.drawing_in_display_allowed = bit(command, 10),
                     !.draw_settings.dithering_enabled = bit(command, 9)]
      [] op = 226 ->
           [g EXCEPT !.texture_window = TextureWindow_from_command_word(command)]
      [] op = 227 ->
           [g EXCEPT !.draw_settings.draw_area_top_left =
                         <<Low(command, 10), Low(Shr(command, 10), 9)>>]
      [] op = 228 ->
           [g EXCEPT !.draw_settings.draw_area_top_left =
                         <<Low(command, 10), Low(Shr(command, 10), 9)>>]
      [] op = 229 ->
           [g EXCEPT !.draw_settings.draw_offset =
                         <<parse_signed_11_bit(command),
                           parse_signed_11_bit(Shr(command, 11))>>]
      [] op = 230 ->
           [g EXCEPT !.draw_settings.force_mask_bit = bit(command, 0),
                     !.draw_settings.check_mask_bit = bit(command, 1)]
      [] OTHER -> Abort(g, "todo", "GP0 settings command {command:08X}", <<command>>)

\* mutant of execute_settings_command: the arm of GP0($E6) is missing
execute_settings_command_NoMask(g, command) ==
    LET op == command.hi \div 256 IN
    CASE op = 225 ->
           [g EXCEPT !.global_texture_page = TexturePage_from_command_word(command),
                     !.draw_settings.drawing_in_display_allowed = bit(command, 10),
                     !.draw_settings.dithering_enabled = bit(command, 9)]
      [] op = 226 ->
           [g EXCEPT !.texture_window = TextureWindow_from_command_word(command)]
      [] op = 227 ->
           [g EXCEPT !.draw_settings.draw_area_top_left =
                         <<Low(command, 10), Low(Shr(command, 10), 9)>>]
      [] op = 228 ->
           [g EXCEPT !.draw_settings.draw_area_bottom_right =
                         <<Low(command, 10), Low(Shr(command, 10), 9)>>]
      [] op = 229 ->
           [g EXCEPT !.draw_settings.draw_offset =
                         <<parse_signed_11_bit(command),
                           parse_signed_11_bit(Shr(command, 11))>>]
      [] OTHER -> Abort(g, "todo", "GP0 settings command {command:08X}", <<command>>)

execute_settings_command(g, command) ==
    LET op == command.hi \div 256 IN
    CASE op = 225 ->   \* 0xE1
           [g EXCEPT !.global_texture_page = TexturePage_from_command_word(command),
                     !.draw_settings.drawing_in_display_allowed = bit(command, 10),
                     !.draw_settings.dithering_enabled = bit(command, 9)]
      [] op = 226 ->   \* 0xE2
           [g EXCEPT !.texture_window = TextureWindow_from_command_word(command)]
      [] op = 227 ->   \* 0xE3
           [g EXCEPT !.draw_settings.draw_area_top_left =
                         <<Low(command, 10), Low(Shr(command, 10), 9)>>]
      [] op = 228 ->   \* 0xE4
           [g EXCEPT !.draw_settings.draw_area_bottom_right =
                         <<Low(command, 10), Low(Shr(command, 10), 9)>>]
      [] op = 229 ->   \* 0xE5
           [g EXCEPT !.draw_settings.draw_offset =
                         <<parse_signed_11_bit(command),
                           parse_signed_11_bit(Shr(command, 11))>>]
      [] op = 230 ->   \* 0xE6
           [g EXCEPT !.draw_settings.force_mask_bit = bit(command, 0),
                     !.draw_settings.check_mask_bit = bit(command, 1)]
      [] OTHER -> Abort(g, "todo", "GP0 settings command {command:08X}", <<command>>)

\* mutant of the end marker test: the whole word compared with 0x50005000
IsPolylineEnd_Mutant(value) == value = W(\h5000, \h5000)

\* the polyline end marker test: value & 0xF000F000 == 0x50005000
IsPolylineEnd(value) ==
    (value.hi \div 4096) = 5 /\ (value.lo \div 4096) = 5

\* mutant of the WaitingForCommand arm: the cache clear is framed like the
\* commands with parameters, with none remaining
NewCommand_ZeroRemaining(g, value) ==
    LET family == value.hi \div 8192
        op == value.hi \div 256
    IN
    CASE family = 0 ->
           (CASE op = 0 -> [g EXCEPT !.command_state = WaitingForCommand]
              [] op = 1 -> [g EXCEPT !.command_state =
                               WaitingForParameters(fill(value).command, 0, 0)]
              [] op = 2 -> [g EXCEPT !.command_state = fill(value)]
              [] op = 31 -> Abort(g, "todo", "GP0($1F) - set GPU IRQ", <<>>)
              [] OTHER -> Abort(g, "todo", "GP0 command: {value:08X}", <<value>>))
      [] family = 1 -> [g EXCEPT !.command_state = Gp0CommandState_draw_polygon(value)]
      [] family = 2 -> [g EXCEPT !.command_state = Gp0CommandState_draw_line(value)]
      [] family = 3 -> [g EXCEPT !.command_state = Gp0CommandState_draw_rectangle(value)]
      [] family = 4 -> [g EXCEPT !.command_state = VRAM_TO_VRAM_BLIT]
      [] family = 5 -> [g EXCEPT !.command_state = CPU_TO_VRAM_BLIT]
      [] family = 6 -> [g EXCEPT !.command_state = VRAM_TO_CPU_BLIT]
      [] OTHER ->
           LET g1 == execute_settings_command(g, value) IN
           IF g1.panicked.kind = "none"
           THEN [g1 EXCEPT !.command_state = WaitingForCommand]
           ELSE g1

\* mutant of the WaitingForCommand arm: GP0($00) has no arm of its own and
\* aborts like an unknown code
NewCommand_NopAborts(g, value) ==
    LET family == value.hi \div 8192
        op == value.hi \div 256
    IN
    CASE family = 0 ->
           (CASE op = 1 -> [g EXCEPT !.command_state = WaitingForCommand]
              [] op = 2 -> [g EXCEPT !.command_state = fill(value)]
              [] op = 31 -> Abort(g, "todo", "GP0($1F) - set GPU IRQ", <<>>)
              [] OTHER -> Abort(g, "todo", "GP0 command: {value:08X}", <<value>>))
      [] family = 1 -> [g EXCEPT !.command_state = Gp0CommandState_draw_polygon(value)]
      [] family = 2 -> [g EXCEPT !.command_state = Gp0CommandState_draw_line(value)]
      [] family = 3 -> [g EXCEPT !.command_state = Gp0CommandState_draw_rectangle(value)]
      [] family = 4 -> [g EXCEPT !.command_state = VRAM_TO_VRAM_BLIT]
      [] family = 5 -> [g EXCEPT !.command_state = CPU_TO_VRAM_BLIT]
      [] family = 6 -> [g EXCEPT !.command_state = VRAM_TO_CPU_BLIT]
      [] OTHER ->
           LET g1 == execute_settings_command(g, value) IN
           IF g1.panicked.kind = "none"
           THEN [g1 EXCEPT !.command_state = WaitingForCommand]
           ELSE g1

\* mutant of the WaitingForCommand arm: GP0($1F) is taken for a no-op
NewCommand_IgnoreIrq(g, value) ==
    LET family == value.hi \div 8192
        op == value.hi \div 256
    IN
    CASE family = 0 ->
           (CASE op = 0 -> [g EXCEPT !.command_state = WaitingForCommand]
              [] op = 1 -> [g EXCEPT !.command_state = WaitingForCommand]
              [] op = 2 -> [g EXCEPT !.command_state = fill(value)]
              [] op = 31 -> [g EXCEPT !.command_state = WaitingForCommand]
              [] OTHER -> Abort(g, "todo", "GP0 command: {value:08X}", <<value>>))
      [] family = 1 -> [g EXCEPT !.command_state = Gp0CommandState_draw_polygon(value)]
      [] family = 2 -> [g EXCEPT !.command_state = Gp0CommandState_draw_line(value)]
      [] family = 3 -> [g EXCEPT !.command_state = Gp0CommandState_draw_rectangle(value)]
      [] family = 4 -> [g EXCEPT !.command_state = VRAM_TO_VRAM_BLIT]
      [] family = 5 -> [g EXCEPT !.command_state = CPU_TO_VRAM_BLIT]
      [] family = 6 -> [g EXCEPT !.command_state = VRAM_TO_CPU_BLIT]
      [] OTHER ->
           LET g1 == execute_settings_command(g, value) IN
           IF g1.panicked.kind = "none"
           THEN [g1 EXCEPT !.command_state = WaitingForCommand]
           ELSE g1

\* the arm of handle_gp0_write for WaitingForCommand
NewCommand(g, value) ==
    LET family == value.hi \div 8192     \* value >> 29
        op == value.hi \div 256          \* value >> 24
    IN
    CASE family = 0 ->
           (CASE op = 0 -> [g EXCEPT !.command_state = WaitingForCommand]
              [] op = 1 -> [g EXCEPT !.command_state = WaitingForCommand]
              [] op = 2 -> [g EXCEPT !.command_state = fill(value)]
              [] op = 31 -> Abort(g, "todo", "GP0($1F) - set GPU IRQ", <<>>)
              [] OTHER -> Abort(g, "todo", "GP0 command: {value:08X}", <<value>>))
      [] family = 1 -> [g EXCEPT !.command_state = Gp0CommandState_draw_polygon(value)]
      [] family = 2 -> [g EXCEPT !.command_state = Gp0CommandState_draw_line(value)]
      [] family = 3 -> [g EXCEPT !.command_state = Gp0CommandState_draw_rectangle(value)]
      [] family = 4 -> [g EXCEPT !.command_state = VRAM_TO_VRAM_BLIT]
      [] family = 5 -> [g EXCEPT !.command_state = CPU_TO_VRAM_BLIT]
      [] family = 6 -> [g EXCEPT !.command_state = VRAM_TO_CPU_BLIT]
      [] OTHER ->
           LET g1 == execute_settings_command(g, value) IN
           IF g1.panicked.kind = "none"
           THEN [g1 EXCEPT !.command_state = WaitingForCommand]
           ELSE g1

\* mutant of the WaitingForParameters arm: the end marker of a polyline is
\* looked for among its parameters too
StoreParameter_Mutant(g, value) ==
    LET command == g.command_state.command
        index == g.command_state.index
        remaining == g.command_state.remaining
        g1 == [g EXCEPT !.parameters[index] = value]
    IN  IF command.kind = "DrawLine" /\ command.polyline /\ IsPolylineEnd(value)
        THEN [g1 EXCEPT !.command_state = WaitingForCommand]
        ELSE IF remaining = 1
        THEN execute_draw_command(g1, command)
        ELSE [g1 EXCEPT !.command_state =
                  WaitingForParameters(command, index + 1, remaining - 1)]

\* mutant of the WaitingForParameters arm: the word is stored one cell late
StoreParameter_Late(g, value) ==
    LET command == g.command_state.command
        index == g.command_state.index
        remaining == g.command_state.remaining
        g1 == [g EXCEPT !.parameters[index + 1] = value]
    IN  IF remaining = 1
        THEN execute_draw_command(g1, command)
        ELSE [g1 EXCEPT !.command_state =
                  WaitingForParameters(command, index + 1, remaining - 1)]

\* the arm for WaitingForParameters { command, index, remaining }
StoreParameter(g, value) ==
    LET command == g.command_state.command
        index == g.command_state.index
        remaining == g.command_state.remaining
        g1 == [g EXCEPT !.parameters[index] = value]
    IN  IF remaining = 1
        THEN execute_draw_command(g1, command)
        ELSE [g1 EXCEPT !.command_state =
                  WaitingForParameters(command, index + 1, remaining - 1)]

\* mutant of the WaitingForPolyline arm: a Gouraud continuation is drawn on
\* its first word, like a flat one
ContinuePolyline_Mutant(g, value) ==
    LET line_parameters == g.command_state.parameters IN
    IF IsPolylineEnd(value)
    THEN [g EXCEPT !.command_state = WaitingForCommand]
    ELSE Gpu_draw_line([g EXCEPT !.parameters[1] = value],
                       [line_parameters EXCEPT !.gouraud_shading = FALSE])

\* the arm for WaitingForPolyline(parameters)
ContinuePolyline(g, value) ==
    LET line_parameters == g.command_state.parameters IN
    IF IsPolylineEnd(value)
    THEN [g EXCEPT !.command_state = WaitingForCommand]
    ELSE LET g1 == [g EXCEPT !.parameters[1] = value] IN
         IF line_parameters.gouraud_shading
         THEN [g1 EXCEPT !.command_state = WaitingForParameters(line_parameters, 2, 1)]
         ELSE Gpu_draw_line(g1, line_parameters)

\* mutant of handle_gp0_write: a write during a VRAM-to-CPU blit ends the
\* blit and is dropped
handle_gp0_write_EndsBlit(g, value) ==
    CASE g.command_state.tag = "WaitingForCommand" -> NewCommand(g, value)
      [] g.command_state.tag = "WaitingForParameters" -> StoreParameter(g, value)
      [] g.command_state.tag = "WaitingForPolyline" -> ContinuePolyline(g, value)
      [] g.command_state.tag = "ReceivingFromCpu" ->
           receive_vram_word_from_cpu(g, value, g.command_state.fields)
      [] g.command_state.tag = "SendingToCpu" ->
           [g EXCEPT !.command_state = WaitingForCommand]

handle_gp0_write(g, value) ==
    CASE g.command_state.tag = "WaitingForCommand" -> NewCommand(g, value)
      [] g.command_state.tag = "WaitingForParameters" -> StoreParameter(g, value)
      [] g.command_state.tag = "WaitingForPolyline" -> ContinuePolyline(g, value)
      [] g.command_state.tag = "ReceivingFromCpu" ->
           receive_vram_word_from_cpu(g, value, g.command_state.fields)
      [] g.command_state.tag = "SendingToCpu" ->
           Abort(g, "panic",
                 "unexpected write to GP0 command buffer during VRAM-to-CPU blit", <<>>)

-----------------------------------------------------------------------------
(* spu/envelope.rs: the volume sweep and ADSR envelopes.  A register value  *)
(* is a number below 2^16; a level or volume is a signed 16-bit number.     *)

\* value.bit(n)
RegBit(value, n) == (value \div 2^n) % 2 = 1

\* x as i16, for x in 0 .. 2^16 - 1
AsI16(x) == IF x >= 32768 THEN x - 65536 ELSE x

\* x as u16, for a signed 16-bit x
AsU16(x) == IF x < 0 THEN x + 65536 ELSE x

\* a.saturating_sub(b) of unsigned numbers
saturating_sub(a, b) == IF a > b THEN a - b ELSE 0

\* x.clamp(lo, hi)
clamp(x, lo, hi) == IF x < lo THEN lo ELSE IF x > hi THEN hi ELSE x

EnvelopeMode_from_bit(b) == IF b THEN "Exponential" ELSE "Linear"

EnvelopeDirection_from_bit(b) == IF b THEN "Decreasing" ELSE "Increasing"

SweepPhase_from_bit(b) == IF b THEN "Negative" ELSE "Positive"

ENVELOPE_COUNTER == 2^22

EnvelopeSettings(step, shift, direction, mode) ==
    [step |-> step, shift |-> shift, direction |-> direction, mode |-> mode]

effective_shift(self, current_volume_magnitude) ==
    IF /\ self.direction = "Increasing"
       /\ self.mode = "Exponential"
       /\ current_volume_magnitude > 24576
    THEN self.shift + 2
    ELSE self.shift

counter_decrement(self, current_volume_magnitude) ==
    LET shift == effective_shift(self, current_volume_magnitude)
    IN  ENVELOPE_COUNTER \div 2^saturating_sub(shift, 11)

\* !step of an i32 is -step - 1; >> 15 of an i32 rounds down, as \div does;
\* every value stays within 16 signed bits
next_step(self, current_volume_magnitude) ==
    LET step0 == 7 - self.step
        step1 == IF self.direction = "Decreasing" THEN -step0 - 1 ELSE step0
        step == step1 * 2^saturating_sub(11, effective_shift(self, current_volume_magnitude))
    IN  IF self.mode = "Exponential" /\ self.direction = "Decreasing"
        THEN (step * current_volume_magnitude) \div 32768
        ELSE step

SweepSetting_parse(value) ==
    IF ~RegBit(value, 15)
    THEN [tag |-> "Fixed"]
    ELSE [tag |-> "Sweep",
          envelope |-> EnvelopeSettings(value % 4, (value \div 4) % 32,
                                        EnvelopeDirection_from_bit(RegBit(value, 13)),
                                        EnvelopeMode_from_bit(RegBit(value, 14))),
          phase |-> SweepPhase_from_bit(RegBit(value, 12))]

SweepEnvelope_new ==
    [volume |-> 0, setting |-> [tag |-> "Fixed"], counter |-> ENVELOPE_COUNTER]

SweepEnvelope_write(self, value) ==
    [self EXCEPT !.setting = SweepSetting_parse(value),
                 !.volume = IF ~RegBit(value, 15) THEN AsI16((value * 2) % 65536) ELSE @]

\* self.volume.saturating_abs() as u16
VolumeMagnitude(volume) ==
    IF volume = -32768 THEN 32767 ELSE IF volume < 0 THEN -volume ELSE volume

\* the counter of a sweep envelope after the subtraction in clock
SweepCounter(self) ==
    saturating_sub(self.counter,
                   counter_decrement(self.setting.envelope, VolumeMagnitude(self.volume)))

SweepEnvelope_clock(self) ==
    IF self.setting.tag # "Sweep"
    THEN self
    ELSE LET envelope_settings == self.setting.envelope
             sweep_phase == self.setting.phase
             current_volume_magnitude == VolumeMagnitude(self.volume)
             counter == SweepCounter(self)
             bugged_sweep_negative ==
                 /\ sweep_phase = "Negative"
                 /\ envelope_settings.direction = "Decreasing"
                 /\ envelope_settings.mode = "Exponential"
             step0 == next_step(envelope_settings, current_volume_magnitude)
             step == IF bugged_sweep_negative THEN -step0 ELSE step0
             volume == IF sweep_phase = "Positive"
                       THEN clamp(self.volume + step, 0, 32767)
                       ELSE -clamp(-self.volume + step, 0, 32767)
         IN  IF counter = 0
             THEN [self EXCEPT !.counter = counter, !.volume = volume]
             ELSE [self EXCEPT !.counter = counter]

parse_sustain_level(value) == (((value % 16) + 1) * 2048) % 65536

AdsrSettings_new ==
    [attack_step |-> 0, attack_shift |-> 0, attack_mode |-> "Linear",
     decay_shift |-> 0, sustain_level |-> parse_sustain_level(0),
     sustain_step |-> 0, sustain_shift |-> 0, sustain_direction |-> "Increasing",
     sustain_mode |-> "Linear", release_shift |-> 0, release_mode |-> "Linear"]

AdsrSettings_write_low(self, value) ==
    [self EXCEPT !.attack_mode = EnvelopeMode_from_bit(RegBit(value, 15)),
                 !.attack_shift = (value \div 1024) % 32,
                 !.attack_step = (value \div 256) % 4,
                 !.decay_shift = (value \div 16) % 16,
                 !.sustain_level = parse_sustain_level(value % 16)]

AdsrSettings_write_high(self, value) ==
    [self EXCEPT !.sustain_mode = EnvelopeMode_from_bit(RegBit(value, 15)),
                 !.sustain_direction = EnvelopeDirection_from_bit(RegBit(value, 14)),
                 !.sustain_shift = (value \div 256) % 32,
                 !.sustain_step = (value \div 64) % 4,
                 !.release_mode = EnvelopeMode_from_bit(RegBit(value, 5)),
                 !.release_shift = value % 32]

AdsrEnvelope_new ==
    [level |-> 0, settings |-> AdsrSettings_new, phase |-> "Release",
     counter |-> ENVELOPE_COUNTER]

\* the phase clock works in, after its two tests at entry
AdsrClockPhase(self) ==
    LET phase1 == IF self.phase = "Attack" /\ self.level = 32767
                  THEN "Decay" ELSE self.phase
    IN  IF phase1 = "Decay" /\ AsU16(self.level) <= self.settings.sustain_level
        THEN "Sustain" ELSE phase1

\* the EnvelopeSettings clock builds for the phase
AdsrEnvelopeSettings(settings, phase) ==
    CASE phase = "Attack" ->
           EnvelopeSettings(settings.attack_step, settings.attack_shift,
                            "Increasing", settings.attack_mode)
      [] phase = "Decay" ->
           EnvelopeSettings(0, settings.decay_shift, "Decreasing", "Exponential")
      [] phase = "Sustain" ->
           EnvelopeSettings(settings.sustain_step, settings.sustain_shift,
                            settings.sustain_direction, settings.sustain_mode)
      [] OTHER ->
           EnvelopeSettings(0, settings.release_shift, "Decreasing", settings.release_mode)

\* mutant of AdsrEnvelope_clock: the new level is not clamped
AdsrEnvelope_clock_Unclamped(self) ==
    LET phase == AdsrClockPhase(self)
        envelope_settings == AdsrEnvelopeSettings(self.settings, phase)
        counter == saturating_sub(self.counter,
                                  counter_decrement(envelope_settings, AsU16(self.level)))
        step == next_step(envelope_settings, AsU16(self.level))
    IN  IF counter = 0
        THEN [self EXCEPT !.phase = phase,
                          !.counter = ENVELOPE_COUNTER,
                          !.level = AsI16(self.level + step)]
        ELSE [self EXCEPT !.phase = phase, !.counter = counter]

AdsrEnvelope_clock(self) ==
    LET phase == AdsrClockPhase(self)
        envelope_settings == AdsrEnvelopeSettings(self.settings, phase)
        counter == saturating_sub(self.counter,
                                  counter_decrement(envelope_settings, AsU16(self.level)))
        step == next_step(envelope_settings, AsU16(self.level))
    IN  IF counter = 0
        THEN [self EXCEPT !.phase = phase,
                          !.counter = ENVELOPE_COUNTER,
                          !.level = clamp(self.level + step, 0, 32767)]
        ELSE [self EXCEPT !.phase = phase, !.counter = counter]

AdsrEnvelope_key_on(self) == [self EXCEPT !.phase = "Attack", !.level = 0]

AdsrEnvelope_key_off(self) == [self EXCEPT !.phase = "Release"]

\* history of an envelope's clocks: clocks counts the clocks since the last
\* one that applied a step (or since construction), shift is the effective
\* shift of those clocks, valid tells that no settings write and no other
\* effective shift came between them, applied that the last clock applied a
\* step, total counts all clocks
NoRun == [clocks |-> 0, shift |-> 0, valid |-> TRUE, applied |-> FALSE, total |-> 0]

\* the history after a clock at effective shift shift
Clocked(run, shift, applied) ==
    IF applied
    THEN [clocks |-> 0, shift |-> 0, valid |-> TRUE, applied |-> TRUE,
          total |-> run.total + 1]
    ELSE [clocks |-> run.clocks + 1, shift |-> shift,
          valid |-> run.valid /\ (run.clocks = 0 \/ run.shift = shift),
          applied |-> FALSE, total |-> run.total + 1]

\* the history after a settings write
Rewritten(run) == [run EXCEPT !.valid = (run.clocks = 0)]

\* SweepEnvelope::new and AdsrEnvelope::new
EnvelopeInit ==
    /\ sweep = SweepEnvelope_new
    /\ adsr = AdsrEnvelope_new
    /\ sweep_run = NoRun
    /\ adsr_run = NoRun

-----------------------------------------------------------------------------
(* The state machine *)

Gpu ==
    [command_state |-> command_state, parameters |-> parameters,
     global_texture_page |-> global_texture_page, texture_window |-> texture_window,
     draw_settings |-> draw_settings, vram |-> vram, calls |-> <<>>,
     panicked |-> panicked]

\* the variables take the fields of the record a method returned
Becomes(g) ==
    /\ command_state' = g.command_state
    /\ parameters' = g.parameters
    /\ global_texture_page' = g.global_texture_page
    /\ texture_window' = g.texture_window
    /\ draw_settings' = g.draw_settings
    /\ vram' = g.vram
    /\ calls' = g.calls
    /\ panicked' = g.panicked

-----------------------------------------------------------------------------
(* gpu/registers.rs: the status word.  Registers holds what the GP1 port    *)
(* sets and GpuStatus what the timers report; both are inputs here, with    *)
(* every enum as its discriminant.                                          *)

Registers_new ==
    [irq |-> FALSE, display_enabled |-> FALSE, dma_mode |-> 0,
     h_resolution |-> 0, v_resolution |-> 0, video_mode |-> 0,
     display_area_color_depth |-> 0, interlaced |-> FALSE, force_h_368px |-> FALSE]

\* the discriminants of SemiTransparencyMode and TextureColorDepthBits
SemiTransparencyMode_as_u32(mode) ==
    CASE mode = "Average" -> 0
      [] mode = "Add" -> 1
      [] mode = "Subtract" -> 2
      [] OTHER -> 3

TextureColorDepthBits_as_u32(depth) ==
    CASE depth = "Four" -> 0
      [] depth = "Eight" -> 1
      [] OTHER -> 2

\* ready_to_receive_command, ready_to_send_vram, ready_to_receive_dma
ready_to_receive_command(g) == g.command_state = WaitingForCommand

ready_to_send_vram(g) == g.command_state.tag = "SendingToCpu"

\* mutant of ready_to_receive_dma: not ready while a CPU-to-VRAM blit streams
ready_to_receive_dma_Mutant(g) ==
    g.command_state.tag \in {"WaitingForCommand", "SendingToCpu"}

ready_to_receive_dma(g) ==
    g.command_state.tag \in {"WaitingForCommand", "SendingToCpu", "ReceivingFromCpu"}

\* mutant of the low halfword of the status word: the colour depth is put
\* at bit 8
StatusLow_Mutant(g) ==
    g.global_texture_page.x_base
        + (g.global_texture_page.y_base \div 256) * 16
        + SemiTransparencyMode_as_u32(g.global_texture_page.semi_transparency_mode) * 32
        + TextureColorDepthBits_as_u32(g.global_texture_page.color_depth) * 256
        + FromBool(g.draw_settings.dithering_enabled) * 512
        + FromBool(g.draw_settings.drawing_in_display_allowed) * 1024
        + FromBool(g.draw_settings.force_mask_bit) * 2048
        + FromBool(g.draw_settings.check_mask_bit) * 4096
        + 8192

\* bits 0-15 of the status word; the fields do not overlap, so | is +
StatusLow(g) ==
    g.global_texture_page.x_base
        + (g.global_texture_page.y_base \div 256) * 16
        + SemiTransparencyMode_as_u32(g.global_texture_page.semi_transparency_mode) * 32
        + TextureColorDepthBits_as_u32(g.global_texture_page.color_depth) * 128
        + FromBool(g.draw_settings.dithering_enabled) * 512
        + FromBool(g.draw_settings.drawing_in_display_allowed) * 1024
        + FromBool(g.draw_settings.force_mask_bit) * 2048
        + FromBool(g.draw_settings.check_mask_bit) * 4096
        + 8192

\* bits 16-31 of the status word
StatusHigh(self, g, gpu_status) ==
    LET dma_request ==
            CASE self.dma_mode = 0 -> 0
              [] self.dma_mode = 1 -> 1
              [] self.dma_mode = 2 -> FromBool(ready_to_receive_dma(g))
              [] OTHER -> FromBool(ready_to_send_vram(g))
        interlaced_bit ==
            IF self.interlaced
            THEN ~gpu_status.in_vblank /\ gpu_status.odd_frame
            ELSE ~gpu_status.in_vblank /\ gpu_status.odd_scanline
    IN  FromBool(self.force_h_368px)
            + self.h_resolution * 2
            + self.v_resolution * 8
            + self.video_mode * 16
            + self.display_area_color_depth * 32
            + FromBool(self.interlaced) * 64
            + FromBool(~self.display_enabled) * 128
            + FromBool(self.irq) * 256
            + dma_request * 512
            + FromBool(ready_to_receive_command(g)) * 1024
            + FromBool(ready_to_send_vram(g)) * 2048
            + FromBool(ready_to_receive_dma(g)) * 4096
            + self.dma_mode * 8192
            + FromBool(interlaced_bit) * 32768

read_status(self, g, gpu_status) == W(StatusHigh(self, g, gpu_status), StatusLow(g))

\* the registers and timer reports a status read is made with
RegistersSamples ==
    {Registers_new,
     [irq |-> TRUE, display_enabled |-> TRUE, dma_mode |-> 2,
      h_resolution |-> 3, v_resolution |-> 1, video_mode |-> 1,
      display_area_color_depth |-> 1, interlaced |-> TRUE, force_h_368px |-> TRUE],
     [Registers_new EXCEPT !.dma_mode = 3],
     [Registers_new EXCEPT !.dma_mode = 1, !.h_resolution = 2]}

GpuStatusSamples ==
    {[in_vblank |-> FALSE, odd_scanline |-> TRUE, odd_frame |-> FALSE],
     [in_vblank |-> TRUE, odd_scanline |-> FALSE, odd_frame |-> TRUE],
     [in_vblank |-> FALSE, odd_scanline |-> FALSE, odd_frame |-> TRUE]}

\* no CPU-to-VRAM blit is on record
NoBlit == [position |-> ZeroWord, size |-> ZeroWord, data |-> <<>>]

\* Gp0State::new; the VRAM starts zeroed
Init ==
    /\ command_state = WaitingForCommand
    /\ parameters = [i \in 0..(PARAMETERS_LEN - 1) |-> ZeroWord]
    /\ global_texture_page = TexturePage_default
    /\ texture_window = TextureWindow_default
    /\ draw_settings = DrawSettings_default
    /\ vram = <<>>
    /\ calls = <<>>
    /\ panicked = NotPanicked
    /\ cmd_word = ZeroWord
    /\ received = <<>>
    /\ last_read = ZeroWord
    /\ streamed = NoBlit
    /\ EnvelopeInit

\* a write of value to the GP0 port
Gp0Write(value) ==
    /\ panicked.kind = "none"
    /\ Becomes(handle_gp0_write(Gpu, value))
    /\ IF command_state.tag = "WaitingForCommand"
       THEN cmd_word' = value /\ received' = <<>>
       ELSE cmd_word' = cmd_word /\ received' = Append(received, value)
    /\ UNCHANGED <<last_read, streamed>>
    /\ UNCHANGED envelope_vars

\* a write of value to the GP0 port, with the record of the CPU-to-VRAM
\* blits: a blit is put on record, with its two parameter words and its data
\* words, by the write that ends it, and taken off it by the next write
\* that changes the VRAM
Gp0WriteTracked(value) ==
    /\ panicked.kind = "none"
    /\ Becomes(handle_gp0_write(Gpu, value))
    /\ IF command_state.tag = "WaitingForCommand"
       THEN cmd_word' = value /\ received' = <<>>
       ELSE cmd_word' = cmd_word /\ received' = Append(received, value)
    /\ streamed' =
           IF command_state.tag = "ReceivingFromCpu" /\ command_state' = WaitingForCommand
           THEN [position |-> received[1], size |-> received[2],
                 data |-> SubSeq(received', 3, Len(received'))]
           ELSE IF vram' # vram THEN NoBlit ELSE streamed
    /\ UNCHANGED last_read
    /\ UNCHANGED envelope_vars

\* a read of the GPU read port during a VRAM-to-CPU blit: the cursor handed
\* to read_vram_word_for_cpu is the one SendingToCpu carries
GpuRead ==
    /\ panicked.kind = "none"
    /\ command_state.tag = "SendingToCpu"
    /\ LET r == read_vram_word_for_cpu(Gpu, command_state.fields) IN
       Becomes(r.gpu) /\ last_read' = r.word
    /\ UNCHANGED <<cmd_word, received, streamed>>
    /\ UNCHANGED envelope_vars

-----------------------------------------------------------------------------
(* The words the CPU writes: small sets that reach every arm of the decoder *)

\* at most this many buffer cells hold a word other than zero when a
\* non-zero parameter is written
MaxMarked == 2

\* a polyline is ended once this many words followed its header
MaxPolylineWords == 5

\* a blit covers at most this many pixels
MaxBlitPixels == 4

Marked(index) ==
    Cardinality({i \in 0..(PARAMETERS_LEN - 1) : i # index /\ parameters[i] # ZeroWord})

\* headers: top byte and the low 24 bits' halfwords
Header(op, rest_hi, lo) == W(op * 256 + rest_hi, lo)

ColorA == W(\h0030, \h2010)

PolygonHeaders == {Header(32 + 4 * f, ColorA.hi, ColorA.lo) : f \in 0..7}

\* the four line commands, and the two polylines once more with bit 25
\* (semi-transparency) set
LineHeaders ==
    {Header(64 + 8 * f, ColorA.hi, ColorA.lo) : f \in 0..3}
        \cup {Header(74, ColorA.hi, ColorA.lo), Header(90, ColorA.hi, ColorA.lo)}

RectangleHeaders == {Header(96 + 4 * f, ColorA.hi, ColorA.lo) : f \in 0..7}

FillHeaders == {Header(2, ColorA.hi, ColorA.lo)}

BlitHeaders == {Header(128, 0, 0), Header(160, 0, 0), Header(192, 0, 0)}

NopHeaders == {Header(0, 0, 0), Header(1, 0, 0)}

ParamWords == {ZeroWord, W(\h1234, \h5678), W(\h5000, \h5000)}

PolylineWords == ParamWords \cup {W(\h5555, \h5555), W(\h5000, \hD000)}

PositionWords == {W(\hFFFF, \hFFFF)}

SizeWords == {s \in {W(1, 1), W(1, 2), W(2, 2), W(1, 3), W(\h0401, \h0C01), W(1, 5)} :
                 parse_vram_size(s).x * parse_vram_size(s).y <= MaxBlitPixels}

DataWords == {ZeroWord, W(\hA1B2, \hC3D4)}

Env(headers) ==
    [headers |-> headers, params |-> ParamWords, polyline |-> PolylineWords,
     positions |-> PositionWords, sizes |-> SizeWords, data |-> DataWords]

IsBlit(command) == command.kind \in {"VramToVramBlit", "CpuToVramBlit", "VramToCpuBlit"}

\* the words the environment env may write in the current state
Offered(env) ==
    CASE command_state.tag = "WaitingForCommand" -> env.headers
      [] command_state.tag = "WaitingForParameters" ->
           IF IsBlit(command_state.command)
           THEN IF command_state.remaining = 1 THEN env.sizes ELSE env.positions
           ELSE {w \in env.params :
                    w = ZeroWord \/ Marked(command_state.index) < MaxMarked}
      [] command_state.tag = "WaitingForPolyline" ->
           {w \in env.polyline :
               \/ IsPolylineEnd(w)
               \/ /\ Len(received) < MaxPolylineWords
                  /\ (w = ZeroWord \/ Marked(1) < MaxMarked)}
      [] command_state.tag = "ReceivingFromCpu" -> env.data
      [] OTHER -> env.headers \cup env.data

\* polygons only
NextPolygon == \E value \in Offered(Env(PolygonHeaders)) : Gp0Write(value)

SpecPolygon == Init /\ [][NextPolygon]_vars

\* rectangles and fills
NextRectangle ==
    \E value \in Offered(Env(RectangleHeaders \cup FillHeaders)) : Gp0Write(value)

SpecRectangle == Init /\ [][NextRectangle]_vars

\* lines and polylines
NextLine == \E value \in Offered(Env(LineHeaders)) : Gp0Write(value)

SpecLine == Init /\ [][NextLine]_vars

\* the three blits, with the reads that drain a VRAM-to-CPU blit
NextBlit ==
    \/ \E value \in Offered(Env(BlitHeaders)) : Gp0Write(value)
    \/ GpuRead

SpecBlit == Init /\ [][NextBlit]_vars

\* GP0($E1): pages with every field set or clear, the unused bits set or clear
TexturePageWords == {Header(225, 0, \h0615), Header(225, 255, \h30AA)}

\* GP0($E2)
TextureWindowWords == {Header(226, 15, \h8443)}

\* GP0($E3), GP0($E4): x = 5, y = 3 and x = 1023, y = 511
DrawAreaTopLeftWords == {Header(227, 0, \h0C05)}

DrawAreaBottomRightWords == {Header(228, 7, \hFFFF)}

\* GP0($E5): the low 11 bits 0x400 and 0x3FF under different higher bits
DrawOffsetWords ==
    {Header(229, 0, \h0400), Header(229, 255, \hFC00),
     Header(229, 0, \h03FF), Header(229, 32, \h03FF)}

\* GP0($E6)
MaskBitWords == {Header(230, 0, 1), Header(230, 255, \hFFFE)}

SettingsHeaders ==
    TexturePageWords \cup TextureWindowWords \cup DrawAreaTopLeftWords
        \cup DrawAreaBottomRightWords \cup DrawOffsetWords \cup MaskBitWords

\* codes without an arm of their own: in the family 000 and in the family 111
UnsupportedHeaders ==
    {Header(3, 0, 0), Header(30, ColorA.hi, ColorA.lo), Header(31, 0, 0),
     Header(224, 0, 0), Header(231, 0, 1), Header(255, 255, \hFFFF)}

\* the commands without parameters, the codes without an arm, and the fill
NextSettings ==
    \E value \in Offered(Env(SettingsHeaders \cup NopHeaders \cup UnsupportedHeaders
                                 \cup FillHeaders)) : Gp0Write(value)

SpecSettings == Init /\ [][NextSettings]_vars

\* at most this many words of a blit are streamed, in either direction
MaxStreamedWords == 2

\* size words with a zero field: width 0, height 0, and the one-pixel size
ZeroSizeWords == {W(1, 0), W(0, 1), W(1, 1)}

ZeroSizePositions == {W(511, 1023), W(0, 1)}

\* the words of the blit in flight streamed so far, two pixels a word
Streamed ==
    IF command_state.tag \in {"ReceivingFromCpu", "SendingToCpu"}
    THEN (command_state.fields.row * command_state.fields.x_size
              + command_state.fields.col) \div 2
    ELSE 0

\* the three blits with a zero in the size word
NextZeroSize ==
    \/ \E value \in Offered([Env(BlitHeaders) EXCEPT !.sizes = ZeroSizeWords,
                                                     !.positions = ZeroSizePositions]) :
          Streamed < MaxStreamedWords /\ Gp0Write(value)
    \/ Streamed < MaxStreamedWords /\ GpuRead

SpecZeroSize == Init /\ [][NextZeroSize]_vars

\* a word with the top byte 0xE1, written as parameter, polyline or data word
SettingsLikeWord == W(\hE105, \h0615)

MixedHeaders ==
    {Header(225, 0, \h0615), Header(229, 0, \h0400),
     Header(36, ColorA.hi, ColorA.lo), Header(72, ColorA.hi, ColorA.lo),
     Header(160, 0, 0), Header(192, 0, 0)}

MixedEnv ==
    [headers |-> MixedHeaders,
     params |-> {ZeroWord, SettingsLikeWord},
     polyline |-> {ZeroWord, SettingsLikeWord, W(\h5000, \h5000)},
     positions |-> PositionWords,
     sizes |-> {W(1, 1), W(1, 2)},
     data |-> {ZeroWord, SettingsLikeWord}]

\* two settings commands, a textured triangle, a polyline, both streamed
\* blits and the reads of the GPU read port
NextMixed ==
    \/ \E value \in Offered(MixedEnv) : Gp0Write(value)
    \/ GpuRead

SpecMixed == Init /\ [][NextMixed]_vars

\* the headers of the commands with parameters
DrawHeaders ==
    PolygonHeaders \cup LineHeaders \cup RectangleHeaders \cup FillHeaders
        \cup BlitHeaders

\* value >> 29, the three blits taken together
HeaderGroup(value) == IF value.hi \div 8192 >= 4 THEN 4 ELSE value.hi \div 8192

\* the first header is any of DrawHeaders, the later ones are of its group
GroupHeaders ==
    IF cmd_word = ZeroWord
    THEN DrawHeaders
    ELSE {h \in DrawHeaders : HeaderGroup(h) = HeaderGroup(cmd_word)}

\* every command with parameters, one group of commands in a run
NextDraw ==
    \/ \E value \in Offered(Env(GroupHeaders)) : Gp0Write(value)
    \/ GpuRead

SpecDraw == Init /\ [][NextDraw]_vars

\* the codes without an arm next to the two streamed blits
NextAbort ==
    \/ \E value \in Offered(Env(UnsupportedHeaders
                                    \cup {Header(160, 0, 0), Header(192, 0, 0)})) :
          Gp0Write(value)
    \/ GpuRead

SpecAbort == Init /\ [][NextAbort]_vars

\* the two texture-page words, the textured triangle and 4-vertex polygon,
\* flat and Gouraud, and the textured rectangles of variable size and of
\* 16 x 16
TextureHeaders ==
    TexturePageWords
        \cup {Header(36, ColorA.hi, ColorA.lo), Header(44, ColorA.hi, ColorA.lo),
              Header(52, ColorA.hi, ColorA.lo),
              Header(100, ColorA.hi, ColorA.lo), Header(124, ColorA.hi, ColorA.lo)}

\* parameter words whose bits 16-31 are a texture page other than those of
\* TexturePageWords
TextureEnv == [Env(TextureHeaders) EXCEPT !.params = {ZeroWord, SettingsLikeWord}]

NextTexture == \E value \in Offered(TextureEnv) : Gp0Write(value)

SpecTexture == Init /\ [][NextTexture]_vars

\* GP0($E1) words with every colour-depth field: 0, 1, 2 and 3
StatusPageWords ==
    TexturePageWords
        \cup {Header(225, 0, \h0100), Header(225, 0, \h0180), Header(225, 0, \h07FF)}

\* GP0($E6) words with every value of bits 0-1
StatusMaskWords == MaskBitWords \cup {Header(230, 0, 3), Header(230, 0, 0)}

\* the settings the status word reports, among the no-ops, a textured
\* triangle and a CPU-to-VRAM blit
StatusEnv ==
    [Env(StatusPageWords \cup StatusMaskWords \cup NopHeaders
             \cup {Header(36, ColorA.hi, ColorA.lo), Header(160, 0, 0)})
        EXCEPT !.params = {ZeroWord, SettingsLikeWord},
               !.sizes = {W(1, 1)},
               !.data = {SettingsLikeWord}]

NextStatus == \E value \in Offered(StatusEnv) : Gp0Write(value)

SpecStatus == Init /\ [][NextStatus]_vars

\* a CPU-to-VRAM blit, which fills the VRAM, and the VRAM-to-VRAM copy
CopyHeaders == {Header(128, 0, 0), Header(160, 0, 0)}

\* the positions (1023, 511) and (0, 0), the sizes 1 x 1, 2 x 1 and 1 x 2:
\* rectangles that wrap on both axes, equal ones and disjoint ones
CopyEnv ==
    [Env(CopyHeaders) EXCEPT !.positions = {W(\hFFFF, \hFFFF), ZeroWord},
                             !.sizes = {W(1, 1), W(1, 2), W(2, 1)},
                             !.data = {W(\hA1B2, \hC3D4)}]

NextCopy == \E value \in Offered(CopyEnv) : Gp0Write(value)

SpecCopy == Init /\ [][NextCopy]_vars

\* the three blits and the reads, with the CPU-to-VRAM blits on record
NextRoundTrip ==
    \/ \E value \in Offered(Env(BlitHeaders)) : Gp0WriteTracked(value)
    \/ GpuRead

SpecRoundTrip == Init /\ [][NextRoundTrip]_vars

-----------------------------------------------------------------------------
(* The envelopes: register writes, key on, key off and clocks *)

\* an envelope is clocked at most this many times
MaxSweepClocks == 10

MaxAdsrClocks == 8

\* volume registers: fixed volumes 0 and 0x7000; sweeps, linear increasing
\* at shift 13, 12 and 11, exponential increasing at shift 10 (12 above
\* 0x6000), exponential decreasing in the negative phase at shift 12
SweepWords == {0, 14336, 32820, 32816, 32812, 49192, 61488}

\* the effective shift of the next clock of a sweep
SweepShift ==
    effective_shift(sweep.setting.envelope, VolumeMagnitude(sweep.volume))

SweepWrite(value) ==
    /\ sweep' = SweepEnvelope_write(sweep, value)
    /\ sweep_run' = Rewritten(sweep_run)
    /\ UNCHANGED <<adsr, adsr_run>>
    /\ UNCHANGED gp0_vars

SweepClock ==
    /\ sweep_run.total < MaxSweepClocks
    /\ sweep' = SweepEnvelope_clock(sweep)
    /\ sweep_run' =
           IF sweep.setting.tag = "Sweep"
           THEN Clocked(sweep_run, SweepShift, SweepCounter(sweep) = 0)
           ELSE [sweep_run EXCEPT !.total = @ + 1, !.applied = FALSE]
    /\ UNCHANGED <<adsr, adsr_run>>
    /\ UNCHANGED gp0_vars

NextSweep ==
    \/ \E value \in SweepWords : SweepWrite(value)
    \/ SweepClock

SpecSweep == Init /\ [][NextSweep]_vars

\* ADSR low halfwords: attack at shift 0 (linear), 13 (linear, decay shift
\* 15, sustain level 15) and 10 (exponential, sustain level 8)
AdsrLowWords == {0, 13567, 43016}

\* ADSR high halfwords: sustain and release at shift 0 (linear increasing,
\* linear), at shift 13 (linear decreasing, exponential) and sustain
\* exponential decreasing at shift 2 with release at shift 12
AdsrHighWords == {0, 19757, 49676}

\* the phase and the effective shift of the next clock of the ADSR envelope
AdsrShift ==
    effective_shift(AdsrEnvelopeSettings(adsr.settings, AdsrClockPhase(adsr)),
                    AsU16(adsr.level))

AdsrWriteLow(value) ==
    /\ adsr' = [adsr EXCEPT !.settings = AdsrSettings_write_low(@, value)]
    /\ adsr_run' = Rewritten(adsr_run)
    /\ UNCHANGED <<sweep, sweep_run>>
    /\ UNCHANGED gp0_vars

AdsrWriteHigh(value) ==
    /\ adsr' = [adsr EXCEPT !.settings = AdsrSettings_write_high(@, value)]
    /\ adsr_run' = Rewritten(adsr_run)
    /\ UNCHANGED <<sweep, sweep_run>>
    /\ UNCHANGED gp0_vars

AdsrKeyOn ==
    /\ adsr' = AdsrEnvelope_key_on(adsr)
    /\ UNCHANGED <<adsr_run, sweep, sweep_run>>
    /\ UNCHANGED gp0_vars

AdsrKeyOff ==
    /\ adsr' = AdsrEnvelope_key_off(adsr)
    /\ UNCHANGED <<adsr_run, sweep, sweep_run>>
    /\ UNCHANGED gp0_vars

AdsrClock ==
    /\ adsr_run.total < MaxAdsrClocks
    /\ adsr' = AdsrEnvelope_clock(adsr)
    /\ adsr_run' = Clocked(adsr_run, AdsrShift, adsr'.counter = ENVELOPE_COUNTER)
    /\ UNCHANGED <<sweep, sweep_run>>
    /\ UNCHANGED gp0_vars

NextAdsr ==
    \/ \E value \in AdsrLowWords : AdsrWriteLow(value)
    \/ \E value \in AdsrHighWords : AdsrWriteHigh(value)
    \/ AdsrKeyOn
    \/ AdsrKeyOff
    \/ AdsrClock

SpecAdsr == Init /\ [][NextAdsr]_vars

-----------------------------------------------------------------------------
(* Properties.  cmd_word is the header of the command in flight (or of the  *)
(* last one, once the engine is back in WaitingForCommand) and received the *)
(* words written after it, so received[i] is parameter word i - 1.          *)

Family(w) == w.hi \div 8192

Flag(w, n) == IF bit(w, n) THEN 1 ELSE 0

NoAbort == panicked.kind = "none"

\* the engine frames a command of n parameters: it waits for parameter
\* Len(received) until n words came, and is back in WaitingForCommand then
Framed(n) ==
    /\ Len(received) <= n
    /\ Len(received) < n =>
          /\ command_state.tag = "WaitingForParameters"
          /\ command_state.index = Len(received)
          /\ command_state.remaining = n - Len(received)
    /\ Len(received) = n => command_state = WaitingForCommand

\* C1: after a polygon header (top 3 bits 001) the engine waits for exactly
\* V*(1+T) + (V-1)*G parameter words, V = 4 if bit 27 else 3, T = bit 26,
\* G = bit 28, starting at index 0, and is back in WaitingForCommand after
\* exactly that many words, whatever their values.
C1_PolygonParameterCount ==
    (NoAbort /\ Family(cmd_word) = 1) =>
        LET V == IF bit(cmd_word, 27) THEN 4 ELSE 3
            T == Flag(cmd_word, 26)
            G == Flag(cmd_word, 28)
        IN  Framed(V * (1 + T) + (V - 1) * G)

C1_Witness ==
    /\ Family(cmd_word) = 1
    /\ bit(cmd_word, 26) /\ bit(cmd_word, 27) /\ bit(cmd_word, 28)
    /\ Len(received) = 11
    /\ received[11] # ZeroWord
    /\ command_state = WaitingForCommand

\* C2: after a rectangle header (top 3 bits 011) the engine waits for exactly
\* 1 + T + S parameter words, T = bit 26 and S = 1 exactly for the Variable
\* size class (bits 27-28 = 0), and is back in WaitingForCommand after
\* exactly that many words and not earlier.
C2_RectangleParameterCount ==
    (NoAbort /\ Family(cmd_word) = 3) =>
        LET T == Flag(cmd_word, 26)
            S == IF ~bit(cmd_word, 27) /\ ~bit(cmd_word, 28) THEN 1 ELSE 0
        IN  Framed(1 + T + S)

C2_Witness ==
    /\ Family(cmd_word) = 3
    /\ bit(cmd_word, 26) /\ ~bit(cmd_word, 27) /\ ~bit(cmd_word, 28)
    /\ Len(received) = 3
    /\ received[3] # ZeroWord
    /\ command_state = WaitingForCommand

\* C3: a fill command (top byte 0x02) followed by 2 words of any value
\* leaves the engine in WaitingForCommand with exactly one vram_fill
\* dispatched when the second word arrives; after 1 word the engine is still
\* in WaitingForParameters and nothing was dispatched.
C3_FillTwoWords ==
    (NoAbort /\ cmd_word.hi \div 256 = 2) =>
        /\ Framed(2)
        /\ Len(received) < 2 => calls = <<>>
        /\ Len(received) = 2 => Len(calls) = 1 /\ calls[1].fn = "fill"

C3_Witness ==
    /\ cmd_word.hi \div 256 = 2
    /\ Len(received) = 2
    /\ received[1] # ZeroWord /\ received[2] # ZeroWord
    /\ command_state = WaitingForCommand
    /\ Len(calls) = 1

\* C4: a line command (top 3 bits 010) without the polyline flag (bit 27)
\* consumes exactly 2 + G parameter words (G = bit 28): first vertex, second
\* colour only when G = 1, second vertex; it dispatches exactly one line when
\* the last of them arrives and is then in WaitingForCommand.
C4_SingleLine ==
    (NoAbort /\ Family(cmd_word) = 2 /\ ~bit(cmd_word, 27)) =>
        LET G == Flag(cmd_word, 28)
            n == 2 + G
        IN  /\ Framed(n)
            /\ Len(received) < n => calls = <<>>
            /\ Len(received) = n =>
                  /\ Len(calls) = 1
                  /\ calls[1].fn = "line"
                  /\ calls[1].args.vertices =
                         <<parse_vertex_coordinates(received[1]),
                           parse_vertex_coordinates(received[n])>>
                  /\ calls[1].args.shading =
                         IF G = 1
                         THEN [kind |-> "Gouraud",
                               colors |-> <<parse_command_color(cmd_word),
                                            parse_command_color(received[2])>>]
                         ELSE [kind |-> "Flat",
                               colors |-> <<parse_command_color(cmd_word)>>]

C4_Witness ==
    /\ Family(cmd_word) = 2 /\ ~bit(cmd_word, 27) /\ bit(cmd_word, 28)
    /\ Len(received) = 3
    /\ received[2] # ZeroWord /\ received[3] # received[2]
    /\ command_state = WaitingForCommand
    /\ Len(calls) = 1

\* C5: a 4-vertex Gouraud textured polygon dispatches nothing before its
\* 11th parameter word and exactly two triangles when it arrives: the first
\* over input vertices 0,1,2 with colours 0,1,2 (colour 0 from the command
\* word), the second over vertices 1,2,3 with colours 1,2,3 and texture
\* coordinates 1,2,3; a 3-vertex polygon dispatches exactly one triangle.
C5_QuadTwoTriangles ==
    (NoAbort /\ Family(cmd_word) = 1) =>
        LET V == IF bit(cmd_word, 27) THEN 4 ELSE 3
            n == V * (1 + Flag(cmd_word, 26)) + (V - 1) * Flag(cmd_word, 28)
            vtx(i) == parse_vertex_coordinates(received[i])
            col(i) == parse_command_color(received[i])
            tu(i) == received[i].lo % 256
            tv(i) == (received[i].lo \div 256) % 256
        IN  /\ Len(received) < n => calls = <<>>
            /\ (Len(received) = n /\ V = 3) =>
                   Len(calls) = 1 /\ calls[1].fn = "triangle"
            /\ (Len(received) = n /\ n = 11) =>
                  /\ Len(calls) = 2
                  /\ calls[1].fn = "triangle" /\ calls[2].fn = "triangle"
                  /\ calls[1].args.vertices = <<vtx(1), vtx(4), vtx(7)>>
                  /\ calls[1].args.shading =
                         [kind |-> "Gouraud",
                          colors |-> <<parse_command_color(cmd_word), col(3), col(6)>>]
                  /\ calls[2].args.vertices = <<vtx(4), vtx(7), vtx(10)>>
                  /\ calls[2].args.shading =
                         [kind |-> "Gouraud", colors |-> <<col(3), col(6), col(9)>>]
                  /\ calls[2].args.texture_params.u = <<tu(5), tu(8), tu(11)>>
                  /\ calls[2].args.texture_params.v = <<tv(5), tv(8), tv(11)>>

C5_Witness ==
    /\ Family(cmd_word) = 1
    /\ bit(cmd_word, 26) /\ bit(cmd_word, 27) /\ bit(cmd_word, 28)
    /\ Len(received) = 11
    /\ received[4] # ZeroWord /\ received[1] = ZeroWord
    /\ Len(calls) = 2

\* the VRAM pixel at (x, y), from its two bytes
Pixel(x, y) ==
    LET addr == 2048 * y + 2 * x IN VramRead(vram, addr) + 256 * VramRead(vram, addr + 1)

\* halfword k of the data words of a CPU-to-VRAM blit, low halfword first;
\* the data follow the two parameter words
DataHalfword(k) ==
    LET word == received[3 + (k \div 2)] IN IF k % 2 = 0 THEN word.lo ELSE word.hi

\* C6: a CPU-to-VRAM blit of w x h pixels at (x, y) stays in
\* ReceivingFromCpu for its first ceil(w*h/2) - 1 data words and returns to
\* WaitingForCommand exactly on data word ceil(w*h/2); halfword k received
\* (low halfword of each word first) is at VRAM pixel
\* ((x + k mod w) mod 1024, (y + k div w) mod 512).
C6_CpuToVramBlit ==
    (NoAbort /\ Family(cmd_word) = 5 /\ Len(received) >= 2) =>
        LET origin == parse_vram_position(received[1])
            size == parse_vram_size(received[2])
            w == size.x
            h == size.y
            words == (w * h + 1) \div 2
            n == Len(received) - 2
            landed == IF 2 * n < w * h THEN 2 * n ELSE w * h
        IN  /\ n <= words
            /\ n < words => command_state.tag = "ReceivingFromCpu"
            /\ n = words => command_state = WaitingForCommand
            /\ \A k \in 0..(landed - 1) :
                   Pixel((origin.x + (k % w)) % 1024, (origin.y + (k \div w)) % 512)
                       = DataHalfword(k)

C6_Witness ==
    /\ Family(cmd_word) = 5
    /\ Len(received) = 4
    /\ parse_vram_size(received[2]) = [x |-> 2, y |-> 2]
    /\ received[3] # ZeroWord /\ received[4] = ZeroWord
    /\ command_state = WaitingForCommand

\* a line command with the polyline and Gouraud flags
GouraudPolyline == Family(cmd_word) = 2 /\ bit(cmd_word, 27) /\ bit(cmd_word, 28)

\* the line dispatched by the last write joins a to b shaded Gouraud(ca, cb)
OneGouraudLine(a, b, ca, cb) ==
    /\ Len(calls) = 1
    /\ calls[1].fn = "line"
    /\ calls[1].args.vertices = <<a, b>>
    /\ calls[1].args.shading = [kind |-> "Gouraud", colors |-> <<ca, cb>>]

\* C7: a Gouraud polyline with inline colour Ca followed by (vertex A,
\* colour Cb, vertex B) dispatches exactly one line A->B shaded
\* Gouraud(Ca, Cb) when the third word arrives, and is then in
\* WaitingForPolyline carrying Cb as the first colour of the next segment.
C7_PolylineFirstSegment ==
    (NoAbort /\ GouraudPolyline) =>
        /\ Len(received) < 3 =>
               calls = <<>> /\ command_state.tag = "WaitingForParameters"
        /\ Len(received) = 3 =>
              /\ OneGouraudLine(parse_vertex_coordinates(received[1]),
                                parse_vertex_coordinates(received[3]),
                                parse_command_color(cmd_word),
                                parse_command_color(received[2]))
              /\ command_state.tag = "WaitingForPolyline"
              /\ command_state.parameters.color = parse_command_color(received[2])

C7_Witness ==
    /\ GouraudPolyline
    /\ Len(received) = 3
    /\ received[2] = W(\h1234, \h5678)
    /\ command_state.tag = "WaitingForPolyline"
    /\ Len(calls) = 1

\* the word at position i of received is no polyline end marker
NotEnd(i) == ~(received[i].hi \div 4096 = 5 /\ received[i].lo \div 4096 = 5)

\* C8 as stated: after the first segment A->B (colours Ca, Cb) of a Gouraud
\* polyline, one non-terminator word carrying vertex C makes the engine draw
\* segment B->C with colour Cb at both ends.
C8_AsStated ==
    (NoAbort /\ GouraudPolyline /\ Len(received) = 4 /\ NotEnd(4)) =>
        /\ Len(calls) = 1
        /\ calls[1].fn = "line"
        /\ calls[1].args.vertices = <<parse_vertex_coordinates(received[3]),
                                      parse_vertex_coordinates(received[4])>>
        /\ \A i \in 1..Len(calls[1].args.shading.colors) :
               calls[1].args.shading.colors[i] = parse_command_color(received[2])

\* C8: after the first segment A->B (colours Ca, Cb) of a Gouraud polyline,
\* one non-terminator word draws nothing and leaves the engine waiting for
\* one more parameter (cell 2); the two words (colour Cc, vertex C) together
\* make it draw segment B->C shaded Gouraud(Cb, Cc).
C8_GouraudContinuation ==
    (NoAbort /\ GouraudPolyline /\ Len(received) >= 4 /\ NotEnd(4)) =>
        /\ Len(received) = 4 =>
              /\ calls = <<>>
              /\ command_state.tag = "WaitingForParameters"
              /\ command_state.index = 2 /\ command_state.remaining = 1
        /\ Len(received) = 5 =>
              /\ OneGouraudLine(parse_vertex_coordinates(received[3]),
                                parse_vertex_coordinates(received[5]),
                                parse_command_color(received[2]),
                                parse_command_color(received[4]))
              /\ command_state.tag = "WaitingForPolyline"

C8_Witness ==
    /\ GouraudPolyline
    /\ Len(received) = 5
    /\ NotEnd(4)
    /\ received[1] = ZeroWord
    /\ received[2] = W(\h5000, \h5000)
    /\ received[3] = W(\h1234, \h5678)
    /\ received[4] = ZeroWord
    /\ Len(calls) = 1

\* the word written by the step, when the engine was not in WaitingForCommand
Written == received'[Len(received')]

\* C9: in every WaitingForPolyline state a word w is the terminator exactly
\* when (w & 0xF000F000) = 0x50005000; a terminator moves the engine to
\* WaitingForCommand with no rasterizer call and without changing VRAM, the
\* settings or the parameter buffer; every other word is stored as data of
\* the next segment and the engine stays in the polyline.
C9_PolylineTerminator ==
    [][(NoAbort /\ command_state.tag = "WaitingForPolyline") =>
          IF /\ Written.hi - (Written.hi % 4096) = \h5000
             /\ Written.lo - (Written.lo % 4096) = \h5000
          THEN /\ command_state' = WaitingForCommand
               /\ calls' = <<>>
               /\ UNCHANGED <<vram, parameters, global_texture_page,
                              texture_window, draw_settings>>
          ELSE /\ parameters'[1] = Written
               /\ command_state'.tag \in {"WaitingForParameters", "WaitingForPolyline"}
               /\ command_state'.tag = "WaitingForPolyline" => Len(calls') = 1
               /\ command_state'.tag = "WaitingForParameters" => calls' = <<>>]_vars

C9_Witness ==
    /\ Family(cmd_word) = 2 /\ bit(cmd_word, 27)
    /\ Len(received) >= 4
    /\ received[Len(received)] = W(\h5555, \h5555)
    /\ received[Len(received) - 1] = W(\h5000, \hD000)
    /\ command_state = WaitingForCommand

\* C10: once a polyline line command is accepted, the engine returns to
\* WaitingForCommand only by a terminator word received in
\* WaitingForPolyline; a word received in WaitingForParameters, terminator
\* pattern or not, is stored as a parameter and does not end the polyline.
C10_OnlyTerminatorEnds ==
    [][(/\ NoAbort
        /\ Family(cmd_word) = 2 /\ bit(cmd_word, 27)
        /\ command_state.tag # "WaitingForCommand") =>
          /\ command_state'.tag = "WaitingForCommand" =>
                /\ command_state.tag = "WaitingForPolyline"
                /\ Written.hi \div 4096 = 5 /\ Written.lo \div 4096 = 5
          /\ command_state.tag = "WaitingForParameters" =>
                /\ parameters'[command_state.index] = Written
                /\ command_state'.tag # "WaitingForCommand"]_vars

C10_Witness ==
    /\ Family(cmd_word) = 2 /\ bit(cmd_word, 27)
    /\ Len(received) = MaxPolylineWords
    /\ received[2] = W(\h5000, \h5000)
    /\ \A i \in 3..Len(received) : NotEnd(i)
    /\ command_state.tag = "WaitingForPolyline"

TopByte(w) == w.hi \div 256

\* the settings command cmd_word was the last word written and was executed
Executed(op) ==
    NoAbort /\ command_state = WaitingForCommand /\ TopByte(cmd_word) = op

\* bits 0-10 and bits 11-21 of a word, unsigned
Field0to10(w) == w.lo % 2048

Field11to21(w) == (w.lo \div 2048) + 32 * (w.hi % 64)

\* C11: settings command 0xE5 sets the draw offset to the two's-complement
\* sign extension of its 11-bit fields, x from bits 0-10 and y from bits
\* 11-21, each in -1024..1023 and congruent to its field modulo 2048; low 11
\* bits 0x400 give x = -1024 and 0x3FF give x = 1023, whatever the higher
\* bits of the word.
C11_DrawOffset ==
    Executed(229) =>
        LET x == draw_settings.draw_offset[1]
            y == draw_settings.draw_offset[2]
        IN  /\ x \in -1024..1023 /\ y \in -1024..1023
            /\ (x + 2048 - Field0to10(cmd_word)) % 2048 = 0
            /\ (y + 2048 - Field11to21(cmd_word)) % 2048 = 0
            /\ Field0to10(cmd_word) = 1024 => x = -1024
            /\ Field0to10(cmd_word) = 1023 => x = 1023

C11_Witness ==
    /\ Executed(229)
    /\ cmd_word = Header(229, 255, \hFC00)
    /\ draw_settings.draw_offset = <<-1024, -1>>

\* a step that is a write of a command word in WaitingForCommand: the word is
\* cmd_word' (the reads of SpecBlit happen in SendingToCpu only)
HeaderStep == NoAbort /\ command_state = WaitingForCommand

\* C12: in every reachable state that a texture-page word (top byte 0xE1)
\* issued in WaitingForCommand has produced, issuing the same word again
\* leaves the texture page, the texture window, the draw settings, the
\* control state and the VRAM as they are.
C12_TexturePageIdempotent ==
    [][(HeaderStep /\ TopByte(cmd_word) = 225 /\ cmd_word' = cmd_word) =>
          /\ global_texture_page' = global_texture_page
          /\ texture_window' = texture_window
          /\ draw_settings' = draw_settings
          /\ command_state' = command_state
          /\ vram' = vram
          /\ panicked' = panicked]_vars

C12_Witness ==
    /\ Executed(225)
    /\ cmd_word = Header(225, 0, \h0615)
    /\ global_texture_page.x_base = 5 /\ global_texture_page.y_base = 256
    /\ draw_settings.dithering_enabled /\ draw_settings.drawing_in_display_allowed
    /\ texture_window # TextureWindow_default
    /\ handle_gp0_write(Gpu, cmd_word) = Gpu

\* C13: a settings word 0xE1-0xE6 written in WaitingForCommand leaves the
\* engine in WaitingForCommand without an abort, and every area of the
\* persistent state other than its own is unchanged (own areas: E1 the
\* texture page with the dithering and display-allowed flags, E2 the texture
\* window, E3 the drawing-area top-left, E4 the bottom-right, E5 the draw
\* offset, E6 the mask force/check flags); the parameter buffer and the VRAM
\* are unchanged.
C13_SettingsOwnArea ==
    [][(HeaderStep /\ TopByte(cmd_word') \in 225..230) =>
          LET op == TopByte(cmd_word')
              old == draw_settings
              new == draw_settings'
          IN  /\ command_state' = WaitingForCommand
              /\ panicked' = NotPanicked
              /\ parameters' = parameters
              /\ vram' = vram
              /\ op # 225 =>
                    /\ global_texture_page' = global_texture_page
                    /\ new.dithering_enabled = old.dithering_enabled
                    /\ new.drawing_in_display_allowed = old.drawing_in_display_allowed
              /\ op # 226 => texture_window' = texture_window
              /\ op # 227 => new.draw_area_top_left = old.draw_area_top_left
              /\ op # 228 => new.draw_area_bottom_right = old.draw_area_bottom_right
              /\ op # 229 => new.draw_offset = old.draw_offset
              /\ op # 230 =>
                    /\ new.force_mask_bit = old.force_mask_bit
                    /\ new.check_mask_bit = old.check_mask_bit]_vars

C13_Witness ==
    /\ Executed(228)
    /\ draw_settings.draw_area_bottom_right = <<1023, 511>>
    /\ draw_settings.draw_area_top_left = <<5, 3>>
    /\ draw_settings.draw_offset = <<1023, -1024>>
    /\ draw_settings.check_mask_bit /\ ~draw_settings.force_mask_bit
    /\ global_texture_page.x_base = 10
    /\ texture_window.y_offset = 31
    /\ parameters[1] = W(\h1234, \h5678)

\* todo!("GP0 settings command {command:08X}") stopped the engine on cmd_word
SettingsTodo ==
    panicked = [kind |-> "todo", msg |-> "GP0 settings command {command:08X}",
                args |-> <<cmd_word>>]

\* C14 as stated: every word whose top 3 bits are 111, received in
\* WaitingForCommand, executes at once and the engine is in
\* WaitingForCommand afterwards, for top bytes 0xE0 through 0xFF.
C14_AsStated ==
    Family(cmd_word) = 7 => (NoAbort /\ command_state = WaitingForCommand)

\* C14: a word whose top 3 bits are 111, received in WaitingForCommand,
\* takes no parameters; with a top byte 0xE1-0xE6 it executes at once and
\* the engine is in WaitingForCommand afterwards, whatever its low 24 bits;
\* with the top byte 0xE0 or 0xE7-0xFF the engine aborts on it
\* (unimplemented settings command) with its state as it was.
C14_SettingsFamily ==
    Family(cmd_word) = 7 =>
        /\ received = <<>>
        /\ command_state = WaitingForCommand
        /\ IF TopByte(cmd_word) \in 225..230 THEN NoAbort ELSE SettingsTodo

C14_Witness ==
    /\ Executed(230)
    /\ cmd_word = Header(230, 255, \hFFFE)
    /\ draw_settings.check_mask_bit /\ ~draw_settings.force_mask_bit

\* C15: a command without parameters (no-op 0x00, cache clear 0x01, settings
\* 0xE1-0xE6) never visits WaitingForParameters: the engine is in
\* WaitingForCommand right after the header word; no step reaches a
\* WaitingForParameters state with remaining = 0; and the two no-ops change
\* neither the settings, the parameter buffer nor the VRAM.
C15_NoParameterCommands ==
    [][/\ command_state'.tag = "WaitingForParameters" =>
              command_state'.remaining >= 1
       /\ (HeaderStep /\ TopByte(cmd_word') \in ({0, 1} \cup 225..230)) =>
              /\ command_state' = WaitingForCommand
              /\ panicked' = NotPanicked
       /\ (HeaderStep /\ TopByte(cmd_word') \in {0, 1}) =>
              /\ global_texture_page' = global_texture_page
              /\ texture_window' = texture_window
              /\ draw_settings' = draw_settings
              /\ parameters' = parameters
              /\ vram' = vram]_vars

C15_Witness ==
    /\ Executed(1)
    /\ parameters[0] = W(\h1234, \h5678)
    /\ draw_settings.draw_offset = <<-1024, -1>>
    /\ global_texture_page.x_base = 5

\* C16: a word received in WaitingForCommand whose top 3 bits are 000 and
\* whose top byte is not 0x00, 0x01 or 0x02 aborts the engine with the
\* unsupported-command error (0x1F with its own message, every other code
\* with the word in the message); the word is neither ignored nor framed as
\* a command with parameters, and the write changes no setting, no
\* parameter and no VRAM byte.
C16_UnsupportedCommand ==
    [][(HeaderStep /\ Family(cmd_word') = 0 /\ TopByte(cmd_word') \notin {0, 1, 2}) =>
          /\ panicked' =
                IF TopByte(cmd_word') = 31
                THEN [kind |-> "todo", msg |-> "GP0($1F) - set GPU IRQ", args |-> <<>>]
                ELSE [kind |-> "todo", msg |-> "GP0 command: {value:08X}",
                      args |-> <<cmd_word'>>]
          /\ command_state'.tag # "WaitingForParameters"
          /\ UNCHANGED <<parameters, global_texture_page, texture_window,
                         draw_settings, vram>>]_vars

C16_Witness ==
    /\ cmd_word = Header(30, ColorA.hi, ColorA.lo)
    /\ panicked.kind = "todo" /\ panicked.args = <<cmd_word>>
    /\ draw_settings.draw_offset = <<1023, 0>>
    /\ parameters[0] = W(\h1234, \h5678)

\* C17: a write to the command port while the engine is in SendingToCpu
\* aborts it with the protocol-violation panic, whatever the word; the write
\* changes neither the VRAM, the parameter buffer nor the settings, and the
\* engine does not leave SendingToCpu by it.
C17_WriteWhileSending ==
    [][(NoAbort /\ command_state.tag = "SendingToCpu" /\ received' # received) =>
          /\ panicked' =
                [kind |-> "panic",
                 msg |-> "unexpected write to GP0 command buffer during VRAM-to-CPU blit",
                 args |-> <<>>]
          /\ command_state' = command_state
          /\ UNCHANGED <<vram, parameters, global_texture_page, texture_window,
                         draw_settings>>]_vars

C17_Witness ==
    /\ panicked.kind = "panic"
    /\ command_state.tag = "SendingToCpu"
    /\ command_state.fields.row = 1
    /\ received[Len(received)] = W(\hA1B2, \hC3D4)
    /\ vram # <<>>

\* the place of the size word among the parameters of the blit cmd_word
SizeIndex == IF Family(cmd_word) = 4 THEN 3 ELSE 2

\* the blit in flight has the words rcv, and its size word declares width 0
\* or height 0
DeclaresZero(rcv) ==
    /\ Family(cmd_word) \in 4..6
    /\ Len(rcv) >= SizeIndex
    /\ (rcv[SizeIndex].lo % 1024 = 0 \/ rcv[SizeIndex].hi % 512 = 0)

\* C18 as stated: a blit whose size word declares width 0 or height 0 raises
\* no error and touches no VRAM pixel.
C18_AsStated ==
    [][(NoAbort /\ DeclaresZero(received')) =>
          /\ vram' = vram
          /\ command_state.tag # "SendingToCpu" => panicked' = NotPanicked]_vars

\* C18: a blit whose size word declares width 0 or height 0 raises no
\* error, and the zero field stands for the full extent, 1024 pixels wide or
\* 512 high: a CPU-to-VRAM or VRAM-to-CPU blit gets a cursor of that size
\* and is not over after MaxStreamedWords words, the data words of the
\* CPU-to-VRAM blit are written from the origin on, and the VRAM-to-VRAM
\* blit copies every pixel of that extent.
C18_ZeroMeansFullExtent ==
    DeclaresZero(received) =>
        LET size == received[SizeIndex]
            width == IF size.lo % 1024 = 0 THEN 1024 ELSE size.lo % 1024
            height == IF size.hi % 512 = 0 THEN 512 ELSE size.hi % 512
            origin == [x |-> received[1].lo % 1024, y |-> received[1].hi % 512]
        IN  /\ (Family(cmd_word) # 6 \/ Len(received) = 2) => NoAbort
            /\ (NoAbort /\ Family(cmd_word) \in {5, 6}) =>
                  /\ command_state.tag =
                        IF Family(cmd_word) = 5 THEN "ReceivingFromCpu" ELSE "SendingToCpu"
                  /\ command_state.fields.x_size = width
                  /\ command_state.fields.y_size = height
                  /\ command_state.fields.destination_x = origin.x
                  /\ command_state.fields.destination_y = origin.y
            /\ Family(cmd_word) = 5 =>
                  /\ command_state.fields.row * width + command_state.fields.col
                        = 2 * (Len(received) - 2)
                  /\ \A k \in 0..(2 * (Len(received) - 2) - 1) :
                      Pixel((origin.x + (k % width)) % 1024,
                            (origin.y + (k \div width)) % 512) = DataHalfword(k)
            /\ Family(cmd_word) = 4 =>
                  LET dest == [x |-> received[2].lo % 1024, y |-> received[2].hi % 512]
                  IN  /\ command_state = WaitingForCommand
                      /\ \A k \in 0..(width * height - 1) :
                            Pixel((dest.x + (k % width)) % 1024,
                                  (dest.y + (k \div width)) % 512)
                              = Pixel((origin.x + (k % width)) % 1024,
                                      (origin.y + (k \div width)) % 512)

C18_Witness ==
    /\ NoAbort
    /\ Family(cmd_word) = 4
    /\ received = <<W(511, 1023), W(0, 1), W(1, 0)>>
    /\ Pixel(1023, 511) = \hC3D4
    /\ Pixel(1, 0) = \hC3D4

Settings == <<global_texture_page, texture_window, draw_settings>>

\* C19: the global texture page, the texture window and the draw settings
\* change only by a settings word 0xE1-0xE6 written in WaitingForCommand;
\* every other step (another header, a parameter word, also one with the top
\* byte 0xE1-0xE6, the last word of a textured polygon with a texture page
\* of its own, a polyline word, a blit data word, a read of the GPU read
\* port, an aborting write) leaves them as they are.
C19_SettingsOnlyBySettingsCommands ==
    [][(Settings' # Settings) =>
          /\ HeaderStep
          /\ TopByte(cmd_word') \in 225..230
          /\ command_state' = WaitingForCommand]_vars

C19_Witness ==
    /\ NoAbort
    /\ cmd_word = Header(36, ColorA.hi, ColorA.lo)
    /\ Len(received) = 6
    /\ received[4] = SettingsLikeWord
    /\ Len(calls) = 1
    /\ calls[1].args.texture_params.texpage.x_base = 5
    /\ calls[1].args.texture_params.texpage.y_base = 0
    /\ global_texture_page.y_base = 256
    /\ draw_settings.draw_offset = <<-1024, 0>>
    /\ vram # <<>>

\* a write of one of the first three words of a streamed blit: its header or
\* one of its two parameter words
BlitStartStep ==
    /\ NoAbort
    /\ Family(cmd_word') \in {5, 6}
    /\ Len(received') <= 2
    /\ <<cmd_word, received>>' # <<cmd_word, received>>

\* C20: a CPU-to-VRAM blit header (top 3 bits 101) waits for exactly 2
\* parameter words and is in ReceivingFromCpu after them, a VRAM-to-CPU blit
\* header (110) likewise in SendingToCpu, never in WaitingForCommand; the
\* cursor is at row 0, col 0, its origin is (p0 & 0x3FF, (p0 >> 16) & 0x1FF)
\* and its size is decoded from the low 10 bits of p1 and from bits 16-24 of
\* p1 (0 standing for 1024 and 512); none of the three words writes a VRAM
\* byte or aborts.
C20_BlitStart ==
    [][BlitStartStep =>
          LET n == Len(received')
              p0 == received'[1]
              p1 == received'[2]
              kind == IF Family(cmd_word') = 5 THEN "CpuToVramBlit" ELSE "VramToCpuBlit"
              streaming == IF Family(cmd_word') = 5 THEN "ReceivingFromCpu"
                           ELSE "SendingToCpu"
          IN  /\ vram' = vram
              /\ panicked' = NotPanicked
              /\ n < 2 => command_state' =
                    [tag |-> "WaitingForParameters", command |-> [kind |-> kind],
                     index |-> n, remaining |-> 2 - n]
              /\ n = 2 => command_state' =
                    [tag |-> streaming,
                     fields |->
                        [destination_x |-> p0.lo % 1024,
                         destination_y |-> p0.hi % 512,
                         x_size |-> IF p1.lo % 1024 = 0 THEN 1024 ELSE p1.lo % 1024,
                         y_size |-> IF p1.hi % 512 = 0 THEN 512 ELSE p1.hi % 512,
                         row |-> 0, col |-> 0]]]_vars

C20_Witness ==
    /\ NoAbort
    /\ Family(cmd_word) = 6
    /\ received = <<W(\hFFFF, \hFFFF), W(\h0401, \h0C01)>>
    /\ command_state.tag = "SendingToCpu"
    /\ command_state.fields.destination_x = 1023
    /\ command_state.fields.destination_y = 511
    /\ command_state.fields.x_size = 1 /\ command_state.fields.y_size = 1
    /\ vram # <<>>

\* a read of the GPU read port: the only step taken in SendingToCpu that
\* leaves the written words as they are
ReadStep ==
    /\ NoAbort
    /\ command_state.tag = "SendingToCpu"
    /\ received' = received

\* pixel k, in raster order, of the rectangle of the cursor f
RasterPixel(f, k) ==
    Pixel((f.destination_x + (k % f.x_size)) % 1024,
          (f.destination_y + (k \div f.x_size)) % 512)

\* C21: in SendingToCpu over a w x h rectangle every read returns the next
\* two pixels in raster order, the earlier one in the low halfword (the high
\* halfword is 0 when the rectangle ends on the earlier one), advances the
\* cursor by what it returned and leaves the VRAM as it is; read number n
\* starts at pixel 2 * (n - 1), the engine stays in SendingToCpu while
\* pixels remain and is in WaitingForCommand exactly after read number
\* ceil(w*h/2).
C21_VramToCpuReads ==
    [][ReadStep =>
          LET f == command_state.fields
              w == f.x_size
              h == f.y_size
              k == f.row * w + f.col
          IN  /\ k % 2 = 0 /\ k < w * h
              /\ last_read'.lo = RasterPixel(f, k)
              /\ last_read'.hi = IF k + 1 < w * h THEN RasterPixel(f, k + 1) ELSE 0
              /\ vram' = vram
              /\ panicked' = NotPanicked
              /\ IF k + 2 < w * h
                 THEN command_state' =
                          SendingToCpu([f EXCEPT !.row = (k + 2) \div w,
                                                 !.col = (k + 2) % w])
                 ELSE command_state' = WaitingForCommand]_vars

C21_Witness ==
    /\ NoAbort
    /\ Family(cmd_word) = 6
    /\ Len(received) = 2
    /\ parse_vram_size(received[2]) = [x |-> 3, y |-> 1]
    /\ command_state = WaitingForCommand
    /\ last_read = W(0, \hC3D4)
    /\ Pixel(1023, 511) = \hC3D4 /\ Pixel(0, 511) = \hA1B2

\* in WaitingForParameters the counters are in range and the cells below
\* index hold the parameters of the command in flight: the words received
\* after the header or, in the continuation of a Gouraud polyline (the only
\* state entered at index 2), the end vertex of the segment before in cell 0
\* and the word just received in cell 1
LiveRegion ==
    command_state.tag = "WaitingForParameters" =>
        LET index == command_state.index
            remaining == command_state.remaining
            n == Len(received)
        IN  /\ remaining >= 1
            /\ index >= 0
            /\ index + remaining <= PARAMETERS_LEN
            /\ IF n = index
               THEN \A i \in 0..(index - 1) : parameters[i] = received[i + 1]
               ELSE /\ index = 2 /\ remaining = 1 /\ n >= 4
                    /\ parameters[1] = received[n]
                    /\ parse_vertex_coordinates(parameters[0])
                          = parse_vertex_coordinates(received[n - 1])

\* C22: in every reachable WaitingForParameters state remaining >= 1,
\* index + remaining <= 11 and the cells [0, index) hold the parameters of
\* the command in flight; a word written in that state is stored at cell
\* index and changes no other cell unless it completes the command; with
\* remaining > 1 the next state is WaitingForParameters with the same
\* command, index + 1 and remaining - 1, with remaining = 1 the command
\* completes and the engine leaves the state it was in.
C22_ParameterBuffer ==
    [][/\ LiveRegion'
       /\ (NoAbort /\ command_state.tag = "WaitingForParameters"
                   /\ received' # received) =>
              LET index == command_state.index
                  remaining == command_state.remaining
              IN  /\ index < PARAMETERS_LEN
                  /\ parameters'[index] = Written
                  /\ panicked' = NotPanicked
                  /\ IF remaining > 1
                     THEN /\ command_state' =
                                WaitingForParameters(command_state.command,
                                                     index + 1, remaining - 1)
                          /\ parameters' = [parameters EXCEPT ![index] = Written]
                     ELSE /\ command_state' # command_state
                          /\ command_state'.tag = "WaitingForParameters" =>
                                command_state'.index = 0]_vars

C22_Witness ==
    /\ NoAbort
    /\ Family(cmd_word) = 1
    /\ command_state.tag = "WaitingForParameters"
    /\ command_state.index = 10
    /\ command_state.remaining = 1
    /\ parameters[9] = W(\h1234, \h5678)
    /\ received[10] = W(\h1234, \h5678)

\* the word whose write raised the abort
Offending ==
    IF command_state.tag = "WaitingForCommand" THEN cmd_word
    ELSE received[Len(received)]

\* C23 as stated: every engine-level failure is an abort whose value carries
\* the 32-bit word that was written.
C23_AsStated ==
    ~NoAbort => panicked.args = <<Offending>>

\* C23: every engine-level failure is an immediate abort, raised by the
\* write itself with the engine's state as it was.  The diagnostic carries
\* the written word for an unsupported code of the family 000 other than
\* 0x1F and for an unsupported settings code (0xE0, 0xE7-0xFF); for 0x1F it
\* names the command code only, and for a write during SendingToCpu it names
\* the violation and carries no word.
C23_AbortDiagnostics ==
    [][(NoAbort /\ panicked' # NotPanicked) =>
          /\ UNCHANGED <<command_state, parameters, global_texture_page,
                         texture_window, draw_settings, vram>>
          /\ \/ /\ command_state.tag = "SendingToCpu"
                /\ panicked' =
                      [kind |-> "panic",
                       msg |-> "unexpected write to GP0 command buffer during VRAM-to-CPU blit",
                       args |-> <<>>]
             \/ /\ command_state.tag = "WaitingForCommand"
                /\ TopByte(cmd_word') = 31
                /\ panicked' = [kind |-> "todo", msg |-> "GP0($1F) - set GPU IRQ",
                                args |-> <<>>]
             \/ /\ command_state.tag = "WaitingForCommand"
                /\ Family(cmd_word') = 0
                /\ TopByte(cmd_word') \notin {0, 1, 2, 31}
                /\ panicked' = [kind |-> "todo", msg |-> "GP0 command: {value:08X}",
                                args |-> <<cmd_word'>>]
             \/ /\ command_state.tag = "WaitingForCommand"
                /\ Family(cmd_word') = 7
                /\ TopByte(cmd_word') \notin 225..230
                /\ panicked' = [kind |-> "todo",
                                msg |-> "GP0 settings command {command:08X}",
                                args |-> <<cmd_word'>>]]_vars

C23_Witness ==
    /\ panicked.kind = "todo"
    /\ cmd_word = Header(255, 255, \hFFFF)
    /\ panicked.args = <<cmd_word>>
    /\ command_state = WaitingForCommand
    /\ vram # <<>>

\* the line command the engine carries while a polyline is in flight
CarriedLine ==
    IF command_state.tag = "WaitingForPolyline" THEN command_state.parameters
    ELSE command_state.command

\* a write that dispatches a segment of a polyline
SegmentStep ==
    /\ NoAbort
    /\ Family(cmd_word) = 2 /\ bit(cmd_word, 27)
    /\ command_state.tag \in {"WaitingForParameters", "WaitingForPolyline"}
    /\ received' # received
    /\ calls' # <<>>

\* C24: a word written in WaitingForPolyline that is no terminator has one
\* of two outcomes, by the Gouraud flag the state carries: with the flag no
\* line is dispatched and the engine waits for exactly one more word of the
\* same line command, to be stored at cell 2; without it exactly one line is
\* dispatched at once and the engine is in WaitingForPolyline again.  After
\* every dispatched segment of a polyline the engine is in
\* WaitingForPolyline with the Gouraud, polyline and semi-transparency flags
\* it carried before.
C24_PolylineContinuation ==
    [][/\ (NoAbort /\ command_state.tag = "WaitingForPolyline"
                   /\ received' # received
                   /\ ~(Written.hi \div 4096 = 5 /\ Written.lo \div 4096 = 5)) =>
              IF command_state.parameters.gouraud_shading
              THEN /\ calls' = <<>>
                   /\ command_state' =
                         WaitingForParameters(command_state.parameters, 2, 1)
              ELSE /\ Len(calls') = 1 /\ calls'[1].fn = "line"
                   /\ command_state'.tag = "WaitingForPolyline"
       /\ SegmentStep =>
              /\ Len(calls') = 1 /\ calls'[1].fn = "line"
              /\ command_state'.tag = "WaitingForPolyline"
              /\ command_state'.parameters.gouraud_shading = CarriedLine.gouraud_shading
              /\ command_state'.parameters.polyline
              /\ command_state'.parameters.semi_transparent
                    = CarriedLine.semi_transparent
              /\ CarriedLine.gouraud_shading = bit(cmd_word, 28)
              /\ CarriedLine.semi_transparent = bit(cmd_word, 25)]_vars

C24_Witness ==
    /\ NoAbort
    /\ cmd_word = Header(74, ColorA.hi, ColorA.lo)
    /\ Len(received) = 4
    /\ NotEnd(3) /\ NotEnd(4)
    /\ Len(calls) = 1
    /\ calls[1].args.semi_transparent
    /\ command_state.tag = "WaitingForPolyline"
    /\ command_state.parameters.semi_transparent
    /\ ~command_state.parameters.gouraud_shading

\* the write of the second word of a continuation pair of a Gouraud
\* polyline has just dispatched a segment: the pair is the last two words
ContinuationDrawn ==
    /\ NoAbort
    /\ GouraudPolyline
    /\ Len(received) >= 5
    /\ Len(calls) = 1

\* C25 as stated: in the continuation of a Gouraud polyline by the words
\* (w1, w2), w1 received in WaitingForPolyline and w2 in
\* WaitingForParameters, the dispatched segment ends at the vertex decoded
\* from w1 with the end colour decoded from w2.
C25_AsStated ==
    ContinuationDrawn =>
        LET w1 == received[Len(received) - 1]
            w2 == received[Len(received)]
        IN  /\ calls[1].args.vertices[2] = parse_vertex_coordinates(w1)
            /\ calls[1].args.shading.colors[2] = parse_command_color(w2)

\* C25: in the continuation of a Gouraud polyline by the words (w1, w2), w1
\* received in WaitingForPolyline and stored at cell 1, w2 received in
\* WaitingForParameters and stored at cell 2, the first word is the end
\* colour and the second the end vertex: the dispatched segment ends at the
\* vertex decoded from w2 with the end colour decoded from w1.
C25_ColourThenVertex ==
    ContinuationDrawn =>
        LET w1 == received[Len(received) - 1]
            w2 == received[Len(received)]
        IN  /\ Len(received) % 2 = 1
            /\ parameters[1] = w1 /\ parameters[2] = w2
            /\ calls[1].fn = "line"
            /\ calls[1].args.shading.kind = "Gouraud"
            /\ calls[1].args.vertices[2] = parse_vertex_coordinates(w2)
            /\ calls[1].args.shading.colors[2] = parse_command_color(w1)

C25_Witness ==
    /\ ContinuationDrawn
    /\ received[4] = W(\h1234, \h5678)
    /\ received[5] = ZeroWord
    /\ calls[1].args.vertices[2] = [x |-> 0, y |-> 0]
    /\ calls[1].args.shading.colors[2] = [r |-> 120, g |-> 86, b |-> 52]

\* the coordinates a vertex decodes to: signed 11-bit values
CoordinateRange == -1024..1023

\* the segment a segment step dispatches
NewSegment == calls'[1].args

\* a segment step of a polyline that has already drawn a segment
ContinuationStep ==
    /\ SegmentStep
    /\ Len(received) >= (IF bit(cmd_word, 28) THEN 3 ELSE 2)

\* C26: every drawn polyline segment leaves its second vertex, re-encoded, in
\* cell 0 and its second colour (the flat colour when not Gouraud) in the
\* carried command; a word of the same polyline that draws nothing keeps
\* both; the next segment starts at the vertex decoded from cell 0 with the
\* carried colour as its first colour.  So each segment starts exactly at its
\* predecessor's second vertex with its predecessor's second colour, although
\* cells 1 and 2 are overwritten by the next segment's words.  Re-encoding a
\* vertex and decoding it again yields it for all signed 11-bit coordinates.
C26_PolylineChaining ==
    [][/\ SegmentStep =>
              /\ NewSegment.vertices[2].x \in CoordinateRange
              /\ NewSegment.vertices[2].y \in CoordinateRange
              /\ parameters'[0] = EncodeVertex(NewSegment.vertices[2])
              /\ parse_vertex_coordinates(parameters'[0]) = NewSegment.vertices[2]
              /\ command_state'.parameters.color =
                     NewSegment.shading.colors[Len(NewSegment.shading.colors)]
              /\ \A x \in CoordinateRange :
                     parse_vertex_coordinates(EncodeVertex([x |-> x, y |-> -1 - x]))
                         = [x |-> x, y |-> -1 - x]
       /\ (/\ NoAbort
           /\ command_state.tag = "WaitingForPolyline"
           /\ command_state'.tag = "WaitingForParameters") =>
              /\ calls' = <<>>
              /\ parameters'[0] = parameters[0]
              /\ command_state'.command.color = command_state.parameters.color
       /\ ContinuationStep =>
              /\ NewSegment.vertices[1] = parse_vertex_coordinates(parameters[0])
              /\ NewSegment.shading.colors[1] = CarriedLine.color
       /\ (ContinuationStep /\ calls # <<>>) =>
              /\ NewSegment.vertices[1] = calls[1].args.vertices[2]
              /\ NewSegment.shading.colors[1]
                     = calls[1].args.shading.colors[Len(calls[1].args.shading.colors)]]_vars

C26_Witness ==
    /\ NoAbort
    /\ GouraudPolyline
    /\ Len(received) = 5
    /\ received[2] = W(\h1234, \h5678)
    /\ received[3] = W(\h1234, \h5678)
    /\ parameters[1] # received[2]
    /\ Len(calls) = 1
    /\ calls[1].args.vertices[1] = [x |-> -392, y |-> 564]
    /\ calls[1].args.shading.colors[1] = [r |-> 120, g |-> 86, b |-> 52]
    /\ command_state.tag = "WaitingForPolyline"

\* the write of a data word of a CPU-to-VRAM blit
DataStep ==
    /\ NoAbort
    /\ command_state.tag = "ReceivingFromCpu"
    /\ received' # received

\* the byte addresses of the rectangle of the cursor f, taken modulo
\* 1024 x 512
RectangleAddresses(f) ==
    {2048 * ((f.destination_y + j) % 512) + 2 * ((f.destination_x + i) % 1024) + b :
        i \in 0..(f.x_size - 1), j \in 0..(f.y_size - 1), b \in 0..1}

\* the bytes of the VRAM before and after the step agree outside kept
UnchangedOutside(kept) ==
    \A a \in (DOMAIN vram \cup DOMAIN vram') \ kept :
        VramRead(vram', a) = VramRead(vram, a)

\* C27: a data word of a CPU-to-VRAM blit changes no VRAM byte outside the
\* declared rectangle (taken modulo 1024 x 512); when the cursor is on the
\* last pixel at the start of a data word (w*h odd), the word's low halfword
\* is written there, the engine goes to WaitingForCommand and the high
\* halfword is written nowhere.
C27_OddBlitEnd ==
    [][DataStep =>
           LET f == command_state.fields
               last == vram_addr(f)
           IN  /\ UnchangedOutside(RectangleAddresses(f))
               /\ (f.row = f.y_size - 1 /\ f.col = f.x_size - 1) =>
                      /\ (f.x_size * f.y_size) % 2 = 1
                      /\ command_state' = WaitingForCommand
                      /\ UnchangedOutside({last, last + 1})
                      /\ VramRead(vram', last) + 256 * VramRead(vram', last + 1)
                             = Written.lo
               /\ (command_state' = WaitingForCommand /\ (f.x_size * f.y_size) % 2 = 1) =>
                      f.row = f.y_size - 1 /\ f.col = f.x_size - 1]_vars

C27_Witness ==
    /\ NoAbort
    /\ Family(cmd_word) = 5
    /\ Len(received) = 4
    /\ parse_vram_size(received[2]) = [x |-> 3, y |-> 1]
    /\ received[4] = W(\hA1B2, \hC3D4)
    /\ command_state = WaitingForCommand
    /\ Pixel(1, 511) = 50132
    /\ Pixel(2, 511) = 0
    /\ Pixel(1023, 0) = 0

\* the write of a parameter word of a command
ParameterStep ==
    /\ NoAbort
    /\ command_state.tag = "WaitingForParameters"
    /\ received' # received

\* the byte addresses at which the VRAM before and after the step differ
ChangedBytes ==
    {a \in DOMAIN vram \cup DOMAIN vram' : VramRead(vram', a) # VramRead(vram, a)}

\* the rasterizer calls the final parameter of command causes
Dispatches(command) ==
    CASE command.kind = "Fill" -> <<"fill">>
      [] command.kind = "DrawLine" -> <<"line">>
      [] command.kind = "DrawRectangle" -> <<"rectangle">>
      [] command.kind = "DrawPolygon" ->
           IF PolygonVertices_into_u8(command.vertices) = 4
           THEN <<"triangle", "triangle">> ELSE <<"triangle">>
      [] OTHER -> <<>>

\* C28: a word has one kind of side effect.  A command header and a
\* parameter word that is not the final one cause no rasterizer call and no
\* VRAM write.  The final parameter of a fill, a line, a rectangle or a
\* 3-vertex polygon causes exactly one rasterizer call, that of a 4-vertex
\* polygon exactly two, and none of them a direct VRAM write; the final
\* parameter of a VRAM copy causes one run of the copy and no rasterizer
\* call; the final parameter of a streamed blit causes neither.  A blit data
\* word causes no rasterizer call and changes at most the two pixels at the
\* cursor and after it.  No step both calls the rasterizer and writes the
\* VRAM directly.
C28_OneKindOfEffect ==
    [][/\ HeaderStep => calls' = <<>> /\ vram' = vram
       /\ (ParameterStep /\ command_state.remaining > 1) =>
              calls' = <<>> /\ vram' = vram
       /\ (ParameterStep /\ command_state.remaining = 1) =>
              LET command == command_state.command IN
              /\ Len(calls') = Len(Dispatches(command))
              /\ \A i \in 1..Len(calls') : calls'[i].fn = Dispatches(command)[i]
              /\ IF command.kind = "VramToVramBlit"
                 THEN /\ vram' = execute_vram_copy([Gpu EXCEPT !.parameters = parameters']).vram
                      /\ command_state' = WaitingForCommand
                 ELSE vram' = vram
       /\ DataStep =>
              LET f == command_state.fields
                  first == vram_addr(f)
                  second == vram_addr(increment(f).fields)
              IN  /\ calls' = <<>>
                  /\ ChangedBytes \subseteq {first, first + 1, second, second + 1}
       /\ (NoAbort /\ command_state.tag = "WaitingForPolyline") =>
              Len(calls') <= 1 /\ vram' = vram
       /\ (calls' # <<>>) => vram' = vram
       /\ Len(calls') <= 2]_vars

C28_Witness ==
    /\ NoAbort
    /\ Family(cmd_word) = 5
    /\ Len(received) = 3
    /\ parse_vram_size(received[2]) = [x |-> 3, y |-> 1]
    /\ received[3] = W(\hA1B2, \hC3D4)
    /\ Pixel(1023, 511) = 50132
    /\ Pixel(0, 511) = 41394
    /\ command_state.tag = "ReceivingFromCpu"
    /\ calls = <<>>

\* the write of the final parameter of a textured polygon or rectangle
TexturedStep ==
    /\ ParameterStep
    /\ command_state.remaining = 1
    /\ command_state.command.kind \in {"DrawPolygon", "DrawRectangle"}
    /\ command_state.command.textured

\* the write of a texture-page word (top byte 0xE1) as a command
TexturePageStep == HeaderStep /\ TopByte(cmd_word') = 225

\* the texture page in the second vertex's texture word of the textured
\* polygon whose last parameter the step writes
OwnTexturePage ==
    LET cell == IF command_state.command.gouraud_shading THEN 4 ELSE 3
    IN  TexturePage_from_command_word(Shr(parameters'[cell], 16))

\* C29 as stated: every texture page handed to the rasterizer with a
\* textured polygon or rectangle, the one in the polygon's texture mapping
\* description included, is the global texture page as it stands at
\* dispatch time.
C29_AsStated ==
    [][TexturedStep =>
           \A i \in 1..Len(calls') :
               /\ calls'[i].global_texture_page = global_texture_page
               /\ "texpage" \in DOMAIN calls'[i].args.texture_params =>
                      calls'[i].args.texture_params.texpage = global_texture_page]_vars

\* C29: the global texture page is the default one at first, is set by a
\* texture-page word (top byte 0xE1) written as a command to the page that
\* word decodes to, and is left as it is by every other step.  With every
\* call for a textured polygon or rectangle the rasterizer is handed the
\* global texture page as it stands at dispatch time, whatever the
\* command's parameter words contain.  It is the only texture page handed
\* over with a rectangle; the texture mapping description of a polygon
\* carries a page of its own, decoded from bits 16-31 of the second
\* vertex's texture word.
C29_GlobalPageHanded ==
    /\ global_texture_page = TexturePage_default
    /\ [][/\ TexturePageStep =>
                 global_texture_page' = TexturePage_from_command_word(cmd_word')
          /\ ~TexturePageStep => global_texture_page' = global_texture_page
          /\ TexturedStep =>
                 /\ calls' # <<>>
                 /\ \A i \in 1..Len(calls') :
                        /\ calls'[i].global_texture_page = global_texture_page
                        /\ IF command_state.command.kind = "DrawRectangle"
                           THEN "texpage" \notin DOMAIN calls'[i].args.texture_params
                           ELSE calls'[i].args.texture_params.texpage = OwnTexturePage]_vars

C29_Witness ==
    /\ NoAbort
    /\ Family(cmd_word) = 1 /\ bit(cmd_word, 26)
    /\ Len(calls) = 2
    /\ global_texture_page = TexturePage_from_command_word(W(0, \h0615))
    /\ calls[2].global_texture_page = global_texture_page
    /\ calls[2].args.texture_params.texpage = TexturePage_from_command_word(W(0, \hE105))
    /\ calls[2].args.texture_params.texpage # global_texture_page

\* bits 27-28 of a rectangle header
SizeClass(w) == (w.hi \div 2048) % 4

\* an 11-bit field read as a two's complement number
Signed11(field) == (((field % 2048) + 1024) % 2048) - 1024

\* C30: once a rectangle command is complete exactly one rectangle has been
\* handed to the rasterizer.  Its width x height is 1x1, 8x8, 16x16 for the
\* size classes 1, 2, 3 (bits 27-28), with the position and, if textured,
\* the texture word as the only parameters; for the Variable class 0 the
\* width is the low 10 bits and the height bits 16-24 of the last parameter
\* word.  Its origin is the signed 11-bit pair of the first parameter and
\* its colour the inline colour of the command word.
C30_RectangleGeometry ==
    (NoAbort /\ Family(cmd_word) = 3 /\ command_state = WaitingForCommand) =>
        LET class == SizeClass(cmd_word)
            last == received[Len(received)]
        IN  /\ Len(calls) = 1
            /\ calls[1].fn = "rectangle"
            /\ Len(received) = 1 + Flag(cmd_word, 26) + (IF class = 0 THEN 1 ELSE 0)
            /\ <<calls[1].args.width, calls[1].args.height>> =
                   CASE class = 1 -> <<1, 1>>
                     [] class = 2 -> <<8, 8>>
                     [] class = 3 -> <<16, 16>>
                     [] OTHER -> <<last.lo % 1024, last.hi % 512>>
            /\ calls[1].args.position =
                   [x |-> Signed11(received[1].lo), y |-> Signed11(received[1].hi)]
            /\ calls[1].args.color =
                   [r |-> cmd_word.lo % 256, g |-> cmd_word.lo \div 256,
                    b |-> cmd_word.hi % 256]

C30_Witness ==
    /\ NoAbort
    /\ Family(cmd_word) = 3
    /\ SizeClass(cmd_word) = 0 /\ bit(cmd_word, 26)
    /\ command_state = WaitingForCommand
    /\ received = <<W(\h1234, \h5678), ZeroWord, W(\h1234, \h5678)>>
    /\ calls[1].args.width = 632 /\ calls[1].args.height = 52
    /\ calls[1].args.position = [x |-> -392, y |-> 564]

\* the pixel at (x, y) of the VRAM v
PixelIn(v, x, y) ==
    LET addr == 2048 * y + 2 * x IN VramRead(v, addr) + 256 * VramRead(v, addr + 1)

\* the pixels of the w x h rectangle at (x, y), taken modulo 1024 x 512
RectanglePixels(x, y, w, h) ==
    {<<(x + i) % 1024, (y + j) % 512>> : i \in 0..(w - 1), j \in 0..(h - 1)}

\* the write of a parameter word of a VRAM-to-VRAM copy
CopyStep == ParameterStep /\ Family(cmd_word) = 4

\* C31: a VRAM-to-VRAM copy (top 3 bits 100) waits for exactly 3 parameter
\* words (source position, destination position, size), changes nothing
\* before the third and is in WaitingForCommand after it; when the source
\* and destination rectangles share no pixel, every destination pixel
\* ((dx+i) mod 1024, (dy+j) mod 512) then holds what the source pixel
\* ((sx+i) mod 1024, (sy+j) mod 512) held before, and every other pixel is
\* unchanged.
C31_VramCopy ==
    [][/\ (HeaderStep /\ Family(cmd_word') = 4) =>
              /\ command_state'.tag = "WaitingForParameters"
              /\ command_state'.index = 0 /\ command_state'.remaining = 3
       /\ (CopyStep /\ Len(received) < 2) =>
              /\ command_state'.tag = "WaitingForParameters"
              /\ command_state'.remaining = 2 - Len(received)
              /\ vram' = vram
       /\ (CopyStep /\ Len(received) = 2) =>
              LET sx == received'[1].lo % 1024
                  sy == received'[1].hi % 512
                  dx == received'[2].lo % 1024
                  dy == received'[2].hi % 512
                  w == ((received'[3].lo + 1023) % 1024) + 1
                  h == ((received'[3].hi + 511) % 512) + 1
                  destination == RectanglePixels(dx, dy, w, h)
              IN  /\ command_state' = WaitingForCommand
                  /\ calls' = <<>>
                  /\ (RectanglePixels(sx, sy, w, h) \cap destination = {}) =>
                         /\ \A i \in 0..(w - 1), j \in 0..(h - 1) :
                                PixelIn(vram', (dx + i) % 1024, (dy + j) % 512)
                                    = PixelIn(vram, (sx + i) % 1024, (sy + j) % 512)
                         /\ UnchangedOutside(
                                {2048 * p[2] + 2 * p[1] + b : p \in destination, b \in 0..1})]_vars

C31_Witness ==
    /\ NoAbort
    /\ Family(cmd_word) = 4
    /\ received = <<W(\hFFFF, \hFFFF), ZeroWord, W(1, 2)>>
    /\ command_state = WaitingForCommand
    /\ Pixel(1023, 511) = 50132 /\ Pixel(0, 511) = 41394
    /\ Pixel(0, 0) = 50132 /\ Pixel(1, 0) = 41394

\* C32 as stated: GP0(0x00) and GP0(0x1F) are both unsupported-command
\* errors: either, received in WaitingForCommand, aborts the engine.
C32_AsStated ==
    [][(HeaderStep /\ TopByte(cmd_word') \in {0, 31}) => panicked'.kind # "none"]_vars

\* C32: of the two command codes, GP0(0x1F), received in WaitingForCommand,
\* aborts the engine as unsupported, and GP0(0x00) is accepted as a no-op:
\* the engine does not abort, stays in WaitingForCommand and calls no
\* rasterizer function.
C32_IrqAbortsNopAccepted ==
    [][/\ (HeaderStep /\ TopByte(cmd_word') = 31) =>
              /\ panicked'.kind = "todo"
              /\ command_state' = command_state
       /\ (HeaderStep /\ TopByte(cmd_word') = 0) =>
              /\ panicked'.kind = "none"
              /\ command_state' = WaitingForCommand
              /\ calls' = <<>>]_vars

C32_Witness ==
    /\ NoAbort
    /\ cmd_word = Header(0, 0, 0)
    /\ received = <<>>
    /\ command_state = WaitingForCommand
    /\ draw_settings.draw_offset = <<1023, 0>>
    /\ global_texture_page.x_base = 5

\* a clock that belongs to a run of clocks at one effective shift s with no
\* settings write in between applies its step as the update rate says: every
\* clock when s <= 11, the last of every 2^(s - 11) clocks when s > 11
AtRate(run, after, s) ==
    (run.valid /\ (run.clocks = 0 \/ run.shift = s)) =>
        IF s <= 11
        THEN after.applied
        ELSE after.applied <=> (run.clocks + 1 = 2^(s - 11))

\* a clock of the sweep envelope with a sweep set, and one of the ADSR envelope
SweepClockStep == sweep_run'.total = sweep_run.total + 1 /\ sweep.setting.tag = "Sweep"

AdsrClockStep == adsr_run'.total = adsr_run.total + 1

\* a clock of the ADSR envelope, and one of the sweep envelope, is at rate
AdsrAtRate == AdsrClockStep => AtRate(adsr_run, adsr_run', AdsrShift)

SweepAtRate == SweepClockStep => AtRate(sweep_run, sweep_run', SweepShift)

\* the update rate of the ADSR envelope alone
AdsrUpdateRate == [][AdsrAtRate]_vars

\* C33: both envelopes, clocked repeatedly with unchanged settings and
\* effective shift s, apply their step on every clock when s <= 11 and on
\* exactly one clock out of every 2^(s-11) consecutive clocks when s > 11,
\* for the first update and for every later one.
C33_UpdateRate == [][AdsrAtRate /\ SweepAtRate]_vars

\* the engine streams a blit
Streaming == command_state.tag \in {"ReceivingFromCpu", "SendingToCpu"}

\* the pixels of the rectangle the cursor f has not passed yet
PixelsLeft(f) == f.x_size * f.y_size - (f.row * f.x_size + f.col)

\* C34: in every reachable ReceivingFromCpu or SendingToCpu state the
\* cursor has 1 <= x_size <= 1024, 1 <= y_size <= 512, 0 <= col < x_size and
\* 0 <= row < y_size, and the byte address it yields,
\* 2048 * ((y + row) mod 512) + 2 * ((x + col) mod 1024), and the one after
\* it are inside the 1 MiB VRAM.  Every data word or read in such a state
\* ends the blit or leaves fewer pixels to pass, by two, so a blit finishes
\* after ceil(x_size * y_size / 2) <= 262144 of them.
C34_CursorInRange ==
    /\ [](Streaming =>
            LET f == command_state.fields IN
            /\ f.x_size \in 1..1024
            /\ f.y_size \in 1..512
            /\ f.col \in 0..(f.x_size - 1)
            /\ f.row \in 0..(f.y_size - 1)
            /\ vram_addr(f) = 2048 * ((f.destination_y + f.row) % 512)
                                + 2 * ((f.destination_x + f.col) % 1024)
            /\ vram_addr(f) >= 0
            /\ vram_addr(f) + 1 < 1048576
            /\ (PixelsLeft(f) + 1) \div 2 <= 262144)
    /\ [][(DataStep \/ ReadStep) =>
              \/ command_state' = WaitingForCommand
                    /\ PixelsLeft(command_state.fields) <= 2
              \/ /\ command_state'.tag = command_state.tag
                 /\ PixelsLeft(command_state'.fields)
                        = PixelsLeft(command_state.fields) - 2
                 /\ command_state'.fields.x_size = command_state.fields.x_size
                 /\ command_state'.fields.y_size = command_state.fields.y_size]_vars

C34_Witness ==
    /\ NoAbort
    /\ command_state.tag = "SendingToCpu"
    /\ command_state.fields.x_size = 2 /\ command_state.fields.y_size = 2
    /\ command_state.fields.row = 1 /\ command_state.fields.col = 0
    /\ vram_addr(command_state.fields) = 2046

\* the number of parameter words of the draw command with header w; for a
\* line it is also the number of cells a polyline segment is drawn from
FramedCount(w) ==
    CASE Family(w) = 1 ->
           LET n == IF bit(w, 27) THEN 4 ELSE 3
           IN  n * (1 + Flag(w, 26)) + (n - 1) * Flag(w, 28)
      [] Family(w) = 2 -> 2 + Flag(w, 28)
      [] Family(w) = 3 ->
           1 + Flag(w, 26) + (IF ~bit(w, 27) /\ ~bit(w, 28) THEN 1 ELSE 0)
      [] OTHER -> 2

\* the write of a word that makes a fill, polygon, line or rectangle call
\* the rasterizer
DrawStep ==
    /\ NoAbort
    /\ Family(cmd_word) \in 0..3
    /\ received' # received
    /\ calls' # <<>>

\* the rasterizer calls the write of Written would make with the word in
\* every buffer cell of cells
CallsWith(cells, word) ==
    handle_gp0_write(
        [Gpu EXCEPT !.parameters = [i \in DOMAIN parameters |->
                                       IF i \in cells THEN word ELSE parameters[i]]],
        Written).calls

AllOnes == W(\hFFFF, \hFFFF)

\* C35: the rasterizer calls of a completed fill, polygon, line or rectangle
\* and of a polyline segment are a function of the buffer cells [0, N), N
\* the parameter count of the command word (2 + G for a line and for every
\* polyline segment): the last word goes to cell N - 1, any other content
\* of the cells at and beyond N gives the same calls, and each cell below
\* N - 1 is read, as another word in it gives other calls.
C35_ReadsFramedCells ==
    [][DrawStep =>
           LET N == FramedCount(cmd_word) IN
           /\ parameters'[N - 1] = Written
           /\ \A word \in {ZeroWord, AllOnes, W(\h1234, \h5678)} :
                  CallsWith(N..(PARAMETERS_LEN - 1), word) = calls'
           /\ \A i \in 0..(N - 2) :
                  \E word \in {ZeroWord, AllOnes} : CallsWith({i}, word) # calls']_vars

C35_Witness ==
    /\ NoAbort
    /\ Family(cmd_word) = 3
    /\ FramedCount(cmd_word) = 1
    /\ Len(calls) = 1
    /\ parameters[1] = W(\h1234, \h5678)
    /\ parameters[2] = W(\h1234, \h5678)
    /\ calls[1].args.width = 8

\* halfword k of the data words of the blit on record, low halfword first
StreamedHalfword(k) ==
    LET word == streamed.data[1 + (k \div 2)] IN IF k % 2 = 0 THEN word.lo ELSE word.hi

\* a read of a VRAM-to-CPU blit over the rectangle of the CPU-to-VRAM blit
\* on record, which no VRAM write followed
RoundTripRead ==
    /\ ReadStep
    /\ streamed.data # <<>>
    /\ parse_vram_position(received[1]) = parse_vram_position(streamed.position)
    /\ parse_vram_size(received[2]) = parse_vram_size(streamed.size)

\* C36: after a CPU-to-VRAM blit of a rectangle with the data halfwords
\* p_0 .. p_(w*h-1) and no VRAM write since, the reads of a VRAM-to-CPU blit
\* of the same rectangle return p_0 .. p_(w*h-1) in that order, two a read
\* (the high halfword of the last read is 0 when w*h is odd), and the blit
\* ends with the read whose number is the number of data words written.
C36_RoundTrip ==
    [][RoundTripRead =>
           LET f == command_state.fields
               k == f.row * f.x_size + f.col
               pixels == f.x_size * f.y_size
           IN  /\ k % 2 = 0
               /\ Len(streamed.data) = (pixels + 1) \div 2
               /\ last_read'.lo = StreamedHalfword(k)
               /\ last_read'.hi = IF k + 1 < pixels THEN StreamedHalfword(k + 1) ELSE 0
               /\ (command_state' = WaitingForCommand)
                      <=> ((k \div 2) + 1 = Len(streamed.data))
               /\ command_state' # WaitingForCommand =>
                      command_state'.tag = "SendingToCpu"]_vars

C36_Witness ==
    /\ NoAbort
    /\ Family(cmd_word) = 6
    /\ received = <<streamed.position, streamed.size>>
    /\ parse_vram_size(streamed.size) = [x |-> 3, y |-> 1]
    /\ streamed.data = <<W(\hA1B2, \hC3D4), W(\hA1B2, \hC3D4)>>
    /\ last_read = W(0, \hC3D4)
    /\ command_state = WaitingForCommand

\* the status words a read may return in the current state
StatusWords ==
    {read_status(self, Gpu, gpu_status) :
        self \in RegistersSamples, gpu_status \in GpuStatusSamples}

\* C37: in every status word bit 26 is set exactly in WaitingForCommand, bit
\* 27 exactly in SendingToCpu and bit 28 exactly in WaitingForCommand,
\* SendingToCpu or ReceivingFromCpu, whatever the registers and the timers
\* hold; so bits 26 and 27 are never both set, either implies bit 28, and
\* all three are clear in WaitingForParameters and WaitingForPolyline.
C37_ReadinessBits ==
    \A status \in StatusWords :
        /\ bit(status, 26) <=> (command_state = WaitingForCommand)
        /\ bit(status, 27) <=> (command_state.tag = "SendingToCpu")
        /\ bit(status, 28) <=>
               (command_state.tag \in {"WaitingForCommand", "SendingToCpu",
                                       "ReceivingFromCpu"})
        /\ ~(bit(status, 26) /\ bit(status, 27))
        /\ (bit(status, 26) \/ bit(status, 27)) => bit(status, 28)
        /\ command_state.tag \in {"WaitingForParameters", "WaitingForPolyline"} =>
               ~bit(status, 26) /\ ~bit(status, 27) /\ ~bit(status, 28)
        /\ status.lo \in 0..65535 /\ status.hi \in 0..65535

C37_Witness ==
    /\ NoAbort
    /\ command_state.tag = "ReceivingFromCpu"
    /\ Len(received) = 2
    /\ global_texture_page.x_base = 5
    /\ \A status \in StatusWords :
           bit(status, 28) /\ ~bit(status, 26) /\ ~bit(status, 27)

\* bits 0-12 of the status words a read may return in the current state
StatusSettings == {status.lo % 8192 : status \in StatusWords}

\* bits 0-10 of a GP0($E1) word as the status word shows them
ReadBack(field) == IF (field \div 128) % 4 = 3 THEN field - 128 ELSE field

\* a GP0($E6) word is issued
MaskBitStep == HeaderStep /\ TopByte(cmd_word') = 230

\* C38: status bits 0-12 are zero before any command; a GP0($E1) word sets
\* bits 0-10 to its own bits 0-10, a colour-depth field of 3 showing as 2,
\* and keeps bits 11-12; a GP0($E6) word sets bits 11-12 to its own bits 0-1
\* and keeps bits 0-10; every other write keeps bits 0-12.  So the bits are
\* those of the most recent GP0($E1) and GP0($E6) words.
C38_SettingsReadBack ==
    /\ StatusSettings = {0}
    /\ [][\A s \in StatusSettings :
              StatusSettings' =
                  {IF TexturePageStep
                   THEN ReadBack(cmd_word'.lo % 2048) + 2048 * (s \div 2048)
                   ELSE IF MaskBitStep
                   THEN (s % 2048) + 2048 * (cmd_word'.lo % 4)
                   ELSE s}]_vars

C38_Witness ==
    /\ cmd_word = Header(225, 0, \h07FF)
    /\ command_state = WaitingForCommand
    /\ draw_settings.force_mask_bit /\ ~draw_settings.check_mask_bit
    /\ global_texture_page.color_depth = "Fifteen"
    /\ StatusSettings = {\h077F + 2048}

\* C39: a textured rectangle and a textured polygon are dispatched with the
\* palette position of their texture parameter word, the second word after
\* the header in both: clut_x is its bits 16-21 and clut_y its bits 22-30.
C39_ClutFields ==
    [][TexturedStep =>
          /\ calls' # <<>>
          /\ \A i \in 1..Len(calls') :
                 /\ calls'[i].args.texture_params.clut_x = received'[2].hi % 64
                 /\ calls'[i].args.texture_params.clut_y
                        = (received'[2].hi \div 64) % 512]_vars

\* what every operation of the ADSR envelope keeps or sets: the level in
\* [0, 0x7FFF], phase Attack and level 0 by key_on, phase Release by key_off
AdsrKeys ==
    /\ adsr'.level \in 0..32767
    /\ AdsrKeyOn => adsr'.phase = "Attack" /\ adsr'.level = 0
    /\ AdsrKeyOff => adsr'.phase = "Release"

\* the two changes of phase of a clock
AttackToDecay == adsr.phase = "Attack" /\ adsr.level = 32767 /\ adsr'.phase = "Decay"

DecayToSustain ==
    /\ adsr.phase = "Decay"
    /\ adsr.level <= adsr.settings.sustain_level
    /\ adsr'.phase = "Sustain"

\* both in one clock
AttackToSustain ==
    /\ adsr.phase = "Attack"
    /\ adsr.level = 32767
    /\ adsr.settings.sustain_level = 32768
    /\ adsr'.phase = "Sustain"

\* C40 as stated: the level stays within [0, 0x7FFF]; key_on sets phase
\* Attack with level 0 and key_off phase Release; a clock keeps the phase or
\* changes it from Attack to Decay, at level 0x7FFF, or from Decay to
\* Sustain, at a level not above the sustain level.
C40_AsStated ==
    [][/\ AdsrKeys
       /\ AdsrClockStep =>
              adsr'.phase = adsr.phase \/ AttackToDecay \/ DecayToSustain]_vars

\* C40: the level stays within [0, 0x7FFF]; key_on sets phase Attack with
\* level 0 and key_off phase Release; a clock keeps the phase or changes it
\* from Attack to Decay, at level 0x7FFF, or from Decay to Sustain, at a
\* level not above the sustain level, or makes both changes at once, from
\* Attack to Sustain, at level 0x7FFF with the sustain level 0x8000.
C40_PhaseChanges ==
    [][/\ AdsrKeys
       /\ AdsrClockStep =>
              \/ adsr'.phase = adsr.phase
              \/ AttackToDecay
              \/ DecayToSustain
              \/ AttackToSustain]_vars

\* the fourth clock after new() has taken the envelope from Attack, which
\* three clocks leave at level 0x7FFF at the earliest, to Sustain
C40_Witness == adsr.phase = "Sustain" /\ adsr_run.total = 4

=============================================================================
